---- MODULE Spec2Model ----
(***************************************************************************)
(* Verification model of MyTrainingOS: the FIT decoder (FITParser), the    *)
(* stress-score calculator (TSSCalculator) and the load engine             *)
(* (PMCEngine).                                                            *)
(*                                                                         *)
(* Number representation.  JavaScript numbers that the code obtains by a   *)
(* fixed unit scaling are kept as integers in the unscaled unit:           *)
(*   totalTime      milliseconds   (code: value / 1000, seconds)           *)
(*   totalDistance  centimetres    (code: value / 100, metres)             *)
(*   speed          1e-4 km/h      (code: value / 1000 * 3.6)              *)
(*   altitude       1/5 m          (code: value / 5 - 500)                 *)
(* JavaScript values are tagged records: Num(n), Null, Undefined, NaN,     *)
(* Bytes(s) (an array of raw bytes), DateV(s) (a Date, seconds).           *)
(***************************************************************************)
EXTENDS Integers, Sequences, FiniteSets, TLC

(***************************************************************************)
(* JavaScript values                                                       *)
(***************************************************************************)
Num(n) == [k |-> "num", n |-> n]
Null == [k |-> "null"]
Undefined == [k |-> "undefined"]
NaN == [k |-> "nan"]
Bytes(s) == [k |-> "bytes", b |-> s]
DateV(s) == [k |-> "date", s |-> s]
InvalidDate == [k |-> "invalid_date"]

IsNum(v) == v.k = "num"

\* JavaScript truthiness: 0, NaN, null and undefined are falsy; arrays and
\* Date objects are truthy.
Truthy(v) ==
    CASE v.k = "num" -> v.n # 0
      [] v.k \in {"null", "undefined", "nan"} -> FALSE
      [] OTHER -> TRUE

\* a || b
Or(a, b) == IF Truthy(a) THEN a ELSE b

\* ToNumber: an array converts through its string form ([] is 0, [b] is b,
\* longer arrays are NaN); null is 0; undefined is NaN.
ToNumber(v) ==
    CASE v.k = "num" -> v
      [] v.k = "null" -> Num(0)
      [] v.k = "bytes" -> IF Len(v.b) = 0 THEN Num(0)
                          ELSE IF Len(v.b) = 1 THEN Num(v.b[1]) ELSE NaN
      [] OTHER -> NaN

\* a + b on numbers (NaN is absorbing)
JSAdd(a, b) ==
    LET x == ToNumber(a)
        y == ToNumber(b)
    IN IF IsNum(x) /\ IsNum(y) THEN Num(x.n + y.n) ELSE NaN

\* v * c for a positive integer constant c
JSScale(v, c) ==
    LET x == ToNumber(v) IN IF IsNum(x) THEN Num(x.n * c) ELSE NaN

\* v + c for an integer constant c
JSShift(v, c) ==
    LET x == ToNumber(v) IN IF IsNum(x) THEN Num(x.n + c) ELSE NaN

\* v > 0
JSPositive(v) ==
    LET x == ToNumber(v) IN IsNum(x) /\ x.n > 0

\* Math.round of the quotient n / d (d > 0): nearest integer, ties upwards
RoundDiv(n, d) == (2 * n + d) \div (2 * d)

(***************************************************************************)
(* DataView reads (src/js/lib/fit-parser.js uses DataView throughout).     *)
(* A read outside the buffer throws a RangeError; InRange is its guard.    *)
(***************************************************************************)
InRange(dv, off, n) == off >= 0 /\ off + n <= Len(dv)

getUint8(dv, off) == dv[off + 1]

getUint16(dv, off, littleEndian) ==
    IF littleEndian THEN dv[off + 1] + 256 * dv[off + 2]
    ELSE 256 * dv[off + 1] + dv[off + 2]

getUint32(dv, off, littleEndian) ==
    IF littleEndian
    THEN dv[off + 1] + 256 * dv[off + 2] + 65536 * dv[off + 3]
         + 16777216 * dv[off + 4]
    ELSE dv[off + 4] + 256 * dv[off + 3] + 65536 * dv[off + 2]
         + 16777216 * dv[off + 1]

\* two's complement: the top byte carries the sign
getInt32(dv, off, littleEndian) ==
    LET top == IF littleEndian THEN dv[off + 4] ELSE dv[off + 1]
        rest == IF littleEndian
                THEN dv[off + 1] + 256 * dv[off + 2] + 65536 * dv[off + 3]
                ELSE dv[off + 4] + 256 * dv[off + 3] + 65536 * dv[off + 2]
    IN rest + 16777216 * (IF top >= 128 THEN top - 256 ELSE top)

(***************************************************************************)
(* FITParser constants                                                     *)
(***************************************************************************)
FIT_EPOCH == 631065600
Signature == <<46, 70, 73, 84>>   \* '.FIT'

\* this.sportTypes
sportTypes ==
    [n \in {0, 1, 2, 5, 10, 11, 17, 18} |->
        CASE n = 0 -> "generic"
          [] n = 1 -> "running"
          [] n = 2 -> "cycling"
          [] n = 5 -> "swimming"
          [] n = 10 -> "fitness_equipment"
          [] n = 11 -> "swimming"
          [] n = 17 -> "cycling"
          [] n = 18 -> "running"]

\* this.subSportTypes
subSportTypes ==
    [n \in {0, 1, 2, 3, 4, 5, 6, 7, 8, 14, 17, 23, 58} |->
        CASE n = 0 -> "generic"
          [] n = 1 -> "treadmill"
          [] n = 2 -> "street"
          [] n = 3 -> "trail"
          [] n = 4 -> "track"
          [] n = 5 -> "spin"
          [] n = 6 -> "indoor_cycling"
          [] n = 7 -> "road"
          [] n = 8 -> "mountain"
          [] n = 14 -> "open_water"
          [] n = 17 -> "lap_swimming"
          [] n = 23 -> "virtual_activity"
          [] n = 58 -> "navigate"]

\* table[v] || 'unknown' : the property key of a number is the number, of a
\* one-element array its element
Lookup(table, v) ==
    LET x == IF v.k = "bytes" /\ Len(v.b) # 1 THEN NaN ELSE ToNumber(v)
    IN IF v.k # "null" /\ IsNum(x) /\ x.n \in DOMAIN table
       THEN table[x.n] ELSE "unknown"

\* the activity object parse() starts from
NewActivity ==
    [sport |-> "unknown", subSport |-> "unknown", startTime |-> Null,
     totalTime |-> Num(0), totalDistance |-> Num(0), totalCalories |-> Num(0),
     avgHeartRate |-> Null, maxHeartRate |-> Null, avgPower |-> Null,
     normalizedPower |-> Null, avgSpeed |-> Null, avgCadence |-> Null,
     avgPace |-> Undefined,
     records |-> <<>>, laps |-> <<>>, sessions |-> <<>>]

\* values[num], undefined when the message carried no such field
Field(values, num) == IF num \in DOMAIN values THEN values[num] ELSE Undefined

convertTimestamp(fitTimestamp) ==
    IF ~Truthy(fitTimestamp) THEN Null
    ELSE IF IsNum(fitTimestamp) THEN DateV(fitTimestamp.n + FIT_EPOCH)
    ELSE InvalidDate

readFieldValue(dv, offset, field, isLittleEndian) ==
    CASE field.size = 1 ->
            IF InRange(dv, offset, 1) THEN Num(getUint8(dv, offset)) ELSE Null
      [] field.size = 2 ->
            IF InRange(dv, offset, 2)
            THEN Num(getUint16(dv, offset, isLittleEndian)) ELSE Null
      [] field.size = 4 ->
            IF ~InRange(dv, offset, 4) THEN Null
            ELSE IF field.type = 133 \/ field.type = 132
                 THEN Num(getInt32(dv, offset, isLittleEndian))
                 ELSE Num(getUint32(dv, offset, isLittleEndian))
      [] OTHER ->
            IF field.size = 0 \/ InRange(dv, offset, field.size)
            THEN Bytes([i \in 1..field.size |-> getUint8(dv, offset + i - 1)])
            ELSE Null

\* a processSession that overwrites the average heart rate with whatever the
\* session carries, null included
processSessionOverwrite(values, activity) ==
    LET session ==
          [startTime |-> convertTimestamp(Or(Field(values, 253), Field(values, 2))),
           totalTime |-> ToNumber(Or(Field(values, 7), Num(0))),
           totalDistance |-> ToNumber(Or(Field(values, 9), Num(0))),
           avgHeartRate |-> Or(Field(values, 16), Null),
           maxHeartRate |-> Or(Field(values, 17), Null),
           avgPower |-> Or(Field(values, 20), Null),
           normalizedPower |-> Or(Field(values, 34), Null),
           avgSpeed |-> IF Truthy(Field(values, 14))
                        THEN JSScale(Field(values, 14), 36) ELSE Null,
           avgCadence |-> Or(Field(values, 18), Null),
           totalCalories |-> Or(Field(values, 11), Num(0)),
           sport |-> Lookup(sportTypes, Field(values, 5)),
           subSport |-> Lookup(subSportTypes, Field(values, 6))]
    IN [activity EXCEPT
          !.sessions = Append(@, session),
          !.startTime = IF ~Truthy(@) THEN session.startTime ELSE @,
          !.totalTime = JSAdd(@, session.totalTime),
          !.totalDistance = JSAdd(@, session.totalDistance),
          !.totalCalories = JSAdd(@, session.totalCalories),
          !.sport = session.sport,
          !.subSport = session.subSport,
          !.avgHeartRate = session.avgHeartRate,
          !.maxHeartRate = IF Truthy(session.maxHeartRate)
                           THEN session.maxHeartRate ELSE @,
          !.avgPower = IF Truthy(session.avgPower) THEN session.avgPower ELSE @,
          !.normalizedPower = IF Truthy(session.normalizedPower)
                              THEN session.normalizedPower ELSE @,
          !.avgSpeed = IF Truthy(session.avgSpeed) THEN session.avgSpeed ELSE @,
          !.avgCadence = IF Truthy(session.avgCadence)
                         THEN session.avgCadence ELSE @]

processSession(values, activity) ==
    LET session ==
          [startTime |-> convertTimestamp(Or(Field(values, 253), Field(values, 2))),
           totalTime |-> ToNumber(Or(Field(values, 7), Num(0))),
           totalDistance |-> ToNumber(Or(Field(values, 9), Num(0))),
           avgHeartRate |-> Or(Field(values, 16), Null),
           maxHeartRate |-> Or(Field(values, 17), Null),
           avgPower |-> Or(Field(values, 20), Null),
           normalizedPower |-> Or(Field(values, 34), Null),
           avgSpeed |-> IF Truthy(Field(values, 14))
                        THEN JSScale(Field(values, 14), 36) ELSE Null,
           avgCadence |-> Or(Field(values, 18), Null),
           totalCalories |-> Or(Field(values, 11), Num(0)),
           sport |-> Lookup(sportTypes, Field(values, 5)),
           subSport |-> Lookup(subSportTypes, Field(values, 6))]
    IN [activity EXCEPT
          !.sessions = Append(@, session),
          !.startTime = IF ~Truthy(@) THEN session.startTime ELSE @,
          !.totalTime = JSAdd(@, session.totalTime),
          !.totalDistance = JSAdd(@, session.totalDistance),
          !.totalCalories = JSAdd(@, session.totalCalories),
          !.sport = session.sport,
          !.subSport = session.subSport,
          !.avgHeartRate = IF Truthy(session.avgHeartRate)
                           THEN session.avgHeartRate ELSE @,
          !.maxHeartRate = IF Truthy(session.maxHeartRate)
                           THEN session.maxHeartRate ELSE @,
          !.avgPower = IF Truthy(session.avgPower) THEN session.avgPower ELSE @,
          !.normalizedPower = IF Truthy(session.normalizedPower)
                              THEN session.normalizedPower ELSE @,
          !.avgSpeed = IF Truthy(session.avgSpeed) THEN session.avgSpeed ELSE @,
          !.avgCadence = IF Truthy(session.avgCadence)
                         THEN session.avgCadence ELSE @]

processLap(values, activity) ==
    LET lap ==
          [startTime |-> convertTimestamp(Or(Field(values, 253), Field(values, 2))),
           totalTime |-> ToNumber(Or(Or(Field(values, 7), Field(values, 8)), Num(0))),
           totalDistance |-> ToNumber(Or(Field(values, 9), Num(0))),
           avgHeartRate |-> Or(Field(values, 15), Null),
           maxHeartRate |-> Or(Field(values, 16), Null),
           avgPower |-> Or(Field(values, 19), Null),
           avgSpeed |-> IF Truthy(Field(values, 13))
                        THEN JSScale(Field(values, 13), 36) ELSE Null,
           avgCadence |-> Or(Field(values, 17), Null)]
    IN [activity EXCEPT !.laps = Append(@, lap)]

processRecord(values, activity) ==
    LET record ==
          [timestamp |-> convertTimestamp(Field(values, 253)),
           heartRate |-> Or(Field(values, 3), Null),
           power |-> Or(Field(values, 7), Null),
           speed |-> IF Truthy(Field(values, 6))
                     THEN JSScale(Field(values, 6), 36) ELSE Null,
           cadence |-> Or(Field(values, 4), Null),
           distance |-> IF Truthy(Field(values, 5))
                        THEN ToNumber(Field(values, 5)) ELSE Null,
           altitude |-> IF Truthy(Field(values, 2))
                        THEN JSShift(Field(values, 2), -2500) ELSE Null,
           latitude |-> IF Truthy(Field(values, 0))
                        THEN ToNumber(Field(values, 0)) ELSE Null,
           longitude |-> IF Truthy(Field(values, 1))
                         THEN ToNumber(Field(values, 1)) ELSE Null]
    IN [activity EXCEPT !.records = Append(@, record)]

\* a switch whose lap case lacks its break and falls into the record case
processMessageFallThrough(globalMsgNum, values, activity) ==
    CASE globalMsgNum = 18 -> processSession(values, activity)
      [] globalMsgNum = 19 -> processRecord(values, processLap(values, activity))
      [] globalMsgNum = 20 -> processRecord(values, activity)
      [] OTHER -> activity

processMessage(globalMsgNum, values, activity) ==
    CASE globalMsgNum = 18 -> processSession(values, activity)
      [] globalMsgNum = 19 -> processLap(values, activity)
      [] globalMsgNum = 20 -> processRecord(values, activity)
      [] OTHER -> activity

(***************************************************************************)
(* FITParser.parseMessage                                                  *)
(* The result carries threw = TRUE when a DataView read outside            *)
(* readFieldValue's try block raised a RangeError; the registry and the    *)
(* activity are then as the throwing call left them.                       *)
(***************************************************************************)
RECURSIVE ReadFieldsUnitStep(_, _, _, _, _, _)
\* a field loop that advances one byte per field whatever its declared width
ReadFieldsUnitStep(dv, offset, fields, i, isLittleEndian, values) ==
    IF i > Len(fields) THEN [values |-> values, offset |-> offset]
    ELSE LET field == fields[i]
             v == readFieldValue(dv, offset, field, isLittleEndian)
             others == DOMAIN values \ {field.num}
         IN ReadFieldsUnitStep(dv, offset + 1, fields, i + 1, isLittleEndian,
                               [n \in others \cup {field.num} |->
                                   IF n = field.num THEN v ELSE values[n]])

RECURSIVE ReadFieldsStopOnFailure(_, _, _, _, _, _)
\* a field loop that does not advance past a field it could not read
ReadFieldsStopOnFailure(dv, offset, fields, i, isLittleEndian, values) ==
    IF i > Len(fields) THEN [values |-> values, offset |-> offset]
    ELSE LET field == fields[i]
             v == readFieldValue(dv, offset, field, isLittleEndian)
             others == DOMAIN values \ {field.num}
         IN ReadFieldsStopOnFailure(
               dv, IF v = Null THEN offset ELSE offset + field.size, fields,
               i + 1, isLittleEndian,
               [n \in others \cup {field.num} |->
                   IF n = field.num THEN v ELSE values[n]])

RECURSIVE ReadFields(_, _, _, _, _, _)
\* for (const field of msgDef.fields) { values[field.num] = ...; offset += field.size }
ReadFields(dv, offset, fields, i, isLittleEndian, values) ==
    IF i > Len(fields) THEN [values |-> values, offset |-> offset]
    ELSE LET field == fields[i]
             v == readFieldValue(dv, offset, field, isLittleEndian)
             others == DOMAIN values \ {field.num}
         IN ReadFields(dv, offset + field.size, fields, i + 1, isLittleEndian,
                       [n \in others \cup {field.num} |->
                           IF n = field.num THEN v ELSE values[n]])

EmptyValues == [n \in {} |-> Null]

\* bytes a developer field definition occupies
DevFieldDefSize == 3

ParseThrow(offset, lmt, activity) ==
    [threw |-> TRUE, offset |-> offset, lmt |-> lmt, activity |-> activity]

\* a definition message that keeps the schema a slot already has
ParseDefinitionKeepFirst(dv, offset1, localMessageType, hasDevData, lmt, activity) ==
    LET offset2 == offset1 + 1          \* reserved byte, skipped unread
        offset3 == offset2 + 1          \* after the architecture byte
        offset4 == offset3 + 2          \* after the global message number
        offset5 == offset4 + 1          \* after the field count
    IN IF ~InRange(dv, offset2, 1) THEN ParseThrow(offset2, lmt, activity)
       ELSE IF ~InRange(dv, offset3, 2) THEN ParseThrow(offset3, lmt, activity)
       ELSE IF ~InRange(dv, offset4, 1) THEN ParseThrow(offset4, lmt, activity)
       ELSE
         LET isLittleEndian == getUint8(dv, offset2) = 0
             globalMsgNum == getUint16(dv, offset3, isLittleEndian)
             numFields == getUint8(dv, offset4)
             offset6 == offset5 + 3 * numFields
         IN IF ~InRange(dv, offset5, 3 * numFields)
            THEN ParseThrow(offset5, lmt, activity)
            ELSE IF hasDevData /\ ~InRange(dv, offset6, 1)
            THEN ParseThrow(offset6, lmt, activity)
            ELSE
              LET fields == [i \in 1..numFields |->
                               [num |-> getUint8(dv, offset5 + 3 * (i - 1)),
                                size |-> getUint8(dv, offset5 + 3 * (i - 1) + 1),
                                type |-> getUint8(dv, offset5 + 3 * (i - 1) + 2)]]
                  offset7 == IF hasDevData
                             THEN offset6 + 1
                                  + DevFieldDefSize * getUint8(dv, offset6)
                             ELSE offset6
                  msgDef == [globalMsgNum |-> globalMsgNum, fields |-> fields,
                             isLittleEndian |-> isLittleEndian]
                  slots == DOMAIN lmt \cup {localMessageType}
              IN [threw |-> FALSE, offset |-> offset7,
                  lmt |-> [s \in slots |->
                             IF s \in DOMAIN lmt THEN lmt[s] ELSE msgDef],
                  activity |-> activity]

ParseDefinition(dv, offset1, localMessageType, hasDevData, lmt, activity) ==
    LET offset2 == offset1 + 1          \* reserved byte, skipped unread
        offset3 == offset2 + 1          \* after the architecture byte
        offset4 == offset3 + 2          \* after the global message number
        offset5 == offset4 + 1          \* after the field count
    IN IF ~InRange(dv, offset2, 1) THEN ParseThrow(offset2, lmt, activity)
       ELSE IF ~InRange(dv, offset3, 2) THEN ParseThrow(offset3, lmt, activity)
       ELSE IF ~InRange(dv, offset4, 1) THEN ParseThrow(offset4, lmt, activity)
       ELSE
         LET isLittleEndian == getUint8(dv, offset2) = 0
             globalMsgNum == getUint16(dv, offset3, isLittleEndian)
             numFields == getUint8(dv, offset4)
             offset6 == offset5 + 3 * numFields
         IN IF ~InRange(dv, offset5, 3 * numFields)
            THEN ParseThrow(offset5, lmt, activity)
            ELSE IF hasDevData /\ ~InRange(dv, offset6, 1)
            THEN ParseThrow(offset6, lmt, activity)
            ELSE
              LET fields == [i \in 1..numFields |->
                               [num |-> getUint8(dv, offset5 + 3 * (i - 1)),
                                size |-> getUint8(dv, offset5 + 3 * (i - 1) + 1),
                                type |-> getUint8(dv, offset5 + 3 * (i - 1) + 2)]]
                  offset7 == IF hasDevData
                             THEN offset6 + 1
                                  + DevFieldDefSize * getUint8(dv, offset6)
                             ELSE offset6
                  msgDef == [globalMsgNum |-> globalMsgNum, fields |-> fields,
                             isLittleEndian |-> isLittleEndian]
                  slots == DOMAIN lmt \cup {localMessageType}
              IN [threw |-> FALSE, offset |-> offset7,
                  lmt |-> [s \in slots |->
                             IF s = localMessageType THEN msgDef ELSE lmt[s]],
                  activity |-> activity]

\* a data message without a schema that leaves the offset where it was
ParseDataKeepOffset(dv, offset1, localMessageType, lmt, activity) ==
    IF localMessageType \notin DOMAIN lmt
    THEN [threw |-> FALSE, offset |-> offset1 - 1, lmt |-> lmt,
          activity |-> activity]
    ELSE LET msgDef == lmt[localMessageType]
             r == ReadFields(dv, offset1, msgDef.fields, 1,
                             msgDef.isLittleEndian, EmptyValues)
         IN [threw |-> FALSE, offset |-> r.offset, lmt |-> lmt,
             activity |-> processMessage(msgDef.globalMsgNum, r.values, activity)]

ParseData(dv, offset1, localMessageType, lmt, activity) ==
    IF localMessageType \notin DOMAIN lmt
    THEN [threw |-> FALSE, offset |-> offset1, lmt |-> lmt,
          activity |-> activity]
    ELSE LET msgDef == lmt[localMessageType]
             r == ReadFields(dv, offset1, msgDef.fields, 1,
                             msgDef.isLittleEndian, EmptyValues)
         IN [threw |-> FALSE, offset |-> r.offset, lmt |-> lmt,
             activity |-> processMessage(msgDef.globalMsgNum, r.values, activity)]

parseMessage(dv, offset, lmt, activity) ==
    IF ~InRange(dv, offset, 1) THEN ParseThrow(offset, lmt, activity)
    ELSE LET recordHeader == getUint8(dv, offset)
             isDefinition == (recordHeader \div 64) % 2 = 1
             localMessageType == recordHeader % 16
             hasDevData == (recordHeader \div 32) % 2 = 1
         IN IF isDefinition
            THEN ParseDefinition(dv, offset + 1, localMessageType, hasDevData,
                                 lmt, activity)
            ELSE ParseData(dv, offset + 1, localMessageType, lmt, activity)

(***************************************************************************)
(* FITParser.calculateDerivedMetrics                                       *)
(***************************************************************************)
RECURSIVE GCD(_, _)
GCD(a, b) == IF b = 0 THEN a ELSE GCD(b, a % b)

\* the quotient n / d of two positive integers, kept exact
Ratio(n, d) == LET g == GCD(n, d) IN [k |-> "ratio", n |-> n \div g, d |-> d \div g]

RECURSIVE SumRange(_, _, _)
\* s[lo] + ... + s[hi]; a + b is associative on these values (NaN is
\* absorbing), so the fold is summed by halves
SumRange(s, lo, hi) ==
    IF lo > hi THEN Num(0)
    ELSE IF lo = hi THEN JSAdd(Num(0), s[lo])
    ELSE LET mid == (lo + hi) \div 2
         IN JSAdd(SumRange(s, lo, mid), SumRange(s, mid + 1, hi))

\* reduce((sum, v) => sum + v, 0) over a sequence of values
SumVals(s, i) == SumRange(s, i, Len(s))

\* const windowSize = 30
windowSize == 30

Pow4(x) == x * x * x * x

\* Math.round(Math.pow(avgFourth, 0.25)), avgFourth the mean over the m
\* windows of (windowSum / windowSize)^4.  r is the rounded root iff
\* (r - 1/2)^4 <= avgFourth < (r + 1/2)^4.
NormalizedPowerOf(powers) ==
    LET n == Len(powers)
        m == n - windowSize + 1
        WSum(i) == SumVals(SubSeq(powers, i, i + windowSize - 1), 1)
        allNum == \A i \in 1..n : IsNum(ToNumber(powers[i]))
        total == SumVals([i \in 1..m |-> Num(Pow4(WSum(i).n))], 1).n
        half == windowSize \div 2
        top == SumVals(powers, 1).n
    IN IF ~allNum THEN NaN
       ELSE Num(CHOOSE r \in 0..top :
                  /\ r > 0 => Pow4(half * (2 * r - 1)) * m <= total
                  /\ total < Pow4(half * (2 * r + 1)) * m)

\* Math.round(sum / count) over the selected values
MeanRounded(vals) ==
    LET sum == SumVals(vals, 1)
    IN IF IsNum(sum) THEN Num(RoundDiv(sum.n, Len(vals))) ELSE NaN

\* the pass with the window test off by one: 30 power samples suffice
calculateDerivedMetricsAtWindow(activity) ==
    LET records == SelectSeq(activity.records, LAMBDA r : Truthy(r.power))
        np == IF Len(records) > 0 /\ ~Truthy(activity.normalizedPower)
                 /\ Len(records) >= 30
              THEN NormalizedPowerOf([i \in 1..Len(records) |-> records[i].power])
              ELSE activity.normalizedPower
        validPower == SelectSeq(records, LAMBDA r : JSPositive(r.power))
        avgPower == IF Len(records) > 0 /\ ~Truthy(activity.avgPower)
                       /\ Len(validPower) > 0
                    THEN MeanRounded([i \in 1..Len(validPower) |-> validPower[i].power])
                    ELSE activity.avgPower
        validHR == SelectSeq(activity.records,
                             LAMBDA r : Truthy(r.heartRate) /\ JSPositive(r.heartRate))
        avgHeartRate == IF ~Truthy(activity.avgHeartRate) /\ Len(validHR) > 0
                        THEN MeanRounded([i \in 1..Len(validHR) |-> validHR[i].heartRate])
                        ELSE activity.avgHeartRate
        validSpeed == SelectSeq(activity.records,
                                LAMBDA r : Truthy(r.speed) /\ JSPositive(r.speed))
        speedSum == SumVals([i \in 1..Len(validSpeed) |-> validSpeed[i].speed], 1)
        avgSpeed == IF ~Truthy(activity.avgSpeed) /\ Len(activity.records) > 0
                       /\ Len(validSpeed) > 0
                    THEN (IF IsNum(speedSum)
                          THEN Ratio(speedSum.n, Len(validSpeed)) ELSE NaN)
                    ELSE activity.avgSpeed
        moving == JSPositive(activity.totalDistance) /\ JSPositive(activity.totalTime)
        \* minutes per 100 m = (ms / 60000) / (cm / 10000)
        swimPace == Ratio(activity.totalTime.n, 6 * activity.totalDistance.n)
        \* minutes per km = (ms / 60000) / (cm / 100000)
        runPace == Ratio(5 * activity.totalTime.n, 3 * activity.totalDistance.n)
        avgPace == IF activity.sport = "running" /\ moving THEN runPace
                   ELSE IF activity.sport = "swimming" /\ moving THEN swimPace
                   ELSE activity.avgPace
    IN [activity EXCEPT !.normalizedPower = np, !.avgPower = avgPower,
                        !.avgHeartRate = avgHeartRate, !.avgSpeed = avgSpeed,
                        !.avgPace = avgPace]

calculateDerivedMetrics(activity) ==
    LET records == SelectSeq(activity.records, LAMBDA r : Truthy(r.power))
        np == IF Len(records) > 0 /\ ~Truthy(activity.normalizedPower)
                 /\ Len(records) > 30
              THEN NormalizedPowerOf([i \in 1..Len(records) |-> records[i].power])
              ELSE activity.normalizedPower
        validPower == SelectSeq(records, LAMBDA r : JSPositive(r.power))
        avgPower == IF Len(records) > 0 /\ ~Truthy(activity.avgPower)
                       /\ Len(validPower) > 0
                    THEN MeanRounded([i \in 1..Len(validPower) |-> validPower[i].power])
                    ELSE activity.avgPower
        validHR == SelectSeq(activity.records,
                             LAMBDA r : Truthy(r.heartRate) /\ JSPositive(r.heartRate))
        avgHeartRate == IF ~Truthy(activity.avgHeartRate) /\ Len(validHR) > 0
                        THEN MeanRounded([i \in 1..Len(validHR) |-> validHR[i].heartRate])
                        ELSE activity.avgHeartRate
        validSpeed == SelectSeq(activity.records,
                                LAMBDA r : Truthy(r.speed) /\ JSPositive(r.speed))
        speedSum == SumVals([i \in 1..Len(validSpeed) |-> validSpeed[i].speed], 1)
        avgSpeed == IF ~Truthy(activity.avgSpeed) /\ Len(activity.records) > 0
                       /\ Len(validSpeed) > 0
                    THEN (IF IsNum(speedSum)
                          THEN Ratio(speedSum.n, Len(validSpeed)) ELSE NaN)
                    ELSE activity.avgSpeed
        moving == JSPositive(activity.totalDistance) /\ JSPositive(activity.totalTime)
        \* minutes per 100 m = (ms / 60000) / (cm / 10000)
        swimPace == Ratio(activity.totalTime.n, 6 * activity.totalDistance.n)
        \* minutes per km = (ms / 60000) / (cm / 100000)
        runPace == Ratio(5 * activity.totalTime.n, 3 * activity.totalDistance.n)
        avgPace == IF activity.sport = "running" /\ moving THEN runPace
                   ELSE IF activity.sport = "swimming" /\ moving THEN swimPace
                   ELSE activity.avgPace
    IN [activity EXCEPT !.normalizedPower = np, !.avgPower = avgPower,
                        !.avgHeartRate = avgHeartRate, !.avgSpeed = avgSpeed,
                        !.avgPace = avgPace]

(***************************************************************************)
(* Input files.  A file is a header followed by a stream of messages laid  *)
(* out as the decoder expects them; the variants truncate it, lengthen the *)
(* declared payload, append a CRC or spoil the signature.                  *)
(***************************************************************************)
MaxMsgs == 2
MaxParses == 2

FieldDef(num, size, type) == [num |-> num, size |-> size, type |-> type]

DefMsg(slot, dev, arch, kind, fields, ndev) ==
    [def |-> TRUE, slot |-> slot, dev |-> dev, arch |-> arch, kind |-> kind,
     fields |-> fields, ndev |-> ndev, body |-> <<>>]

DataMsg(slot, body) ==
    [def |-> FALSE, slot |-> slot, dev |-> FALSE, arch |-> 0, kind |-> 0,
     fields |-> <<>>, ndev |-> 0, body |-> body]

\* the payload bytes have bit 0x40 clear: read as a record header each is a
\* data message, never a definition
Menu ==
    << DefMsg(0, FALSE, 0, 20,
              <<FieldDef(3, 1, 2), FieldDef(7, 2, 132), FieldDef(4, 1, 2)>>, 0),
       DefMsg(1, FALSE, 1, 18,
              <<FieldDef(7, 4, 134), FieldDef(16, 1, 2), FieldDef(5, 1, 0),
                FieldDef(34, 2, 132)>>, 0),
       DefMsg(0, TRUE, 0, 19, <<FieldDef(9, 4, 133)>>, 1),
       DataMsg(0, <<150, 2, 0, 60>>),
       DataMsg(1, <<0, 0, 11, 184, 140, 2, 0, 0>>),
       DataMsg(1, <<0, 0, 15, 160, 0, 1, 0, 5>>),
       DefMsg(1, FALSE, 1, 21,
              <<FieldDef(253, 4, 134), FieldDef(0, 1, 0), FieldDef(1, 1, 0),
                FieldDef(2, 2, 132)>>, 0) >>

RECURSIVE Flatten(_, _)
Flatten(ss, i) == IF i > Len(ss) THEN <<>> ELSE ss[i] \o Flatten(ss, i + 1)

\* the bytes of one message (layout of spec section 4.1)
EncodeMsg(m) ==
    IF m.def
    THEN <<64 + (IF m.dev THEN 32 ELSE 0) + m.slot, 0, m.arch>>
         \o (IF m.arch = 0 THEN <<m.kind % 256, m.kind \div 256>>
             ELSE <<m.kind \div 256, m.kind % 256>>)
         \o <<Len(m.fields)>>
         \o Flatten([i \in 1..Len(m.fields) |->
                       <<m.fields[i].num, m.fields[i].size, m.fields[i].type>>], 1)
         \o (IF m.dev THEN <<m.ndev>> \o [i \in 1..(3 * m.ndev) |-> 0] ELSE <<>>)
    ELSE <<m.slot>> \o m.body

EncodeStream(stream) == Flatten([i \in 1..Len(stream) |-> EncodeMsg(Menu[stream[i]])], 1)

Streams == UNION {[1..n -> 1..Len(Menu)] : n \in 0..MaxMsgs}

\* "exact12": 12-byte header, payload; "crc": 14-byte header, payload, file
\* CRC; "truncated": last payload byte missing; "overlong": declared length
\* two bytes past the end; "badsig": signature '.FIX'; "short": the first ten
\* header bytes only.
Variants == {"exact12", "crc", "truncated", "overlong", "badsig"}

\* files whose sample count is the rolling window's size or one more, alone
\* and after either session
LongStreams ==
    {pre \o <<1>> \o [i \in 1..n |-> 4] :
        pre \in {<<>>, <<2, 5>>, <<2, 6>>}, n \in {windowSize, windowSize + 1}}

\* the damaged framings are tried on the streams one message short of the bound
Inputs ==
    [stream : Streams, variant : {"exact12", "crc"}]
    \cup [stream : LongStreams, variant : {"crc"}]
    \cup [stream : {s \in Streams : Len(s) < MaxMsgs},
          variant : Variants \ {"exact12", "crc"}]
    \cup {[stream |-> <<>>, variant |-> "short"]}

\* a 32-bit little-endian length
LE32(n) == <<n % 256, (n \div 256) % 256, (n \div 65536) % 256, n \div 16777216>>

Header(headerSize, dataSize, sig) ==
    <<headerSize, 16, 0, 0>> \o LE32(dataSize) \o sig
    \o (IF headerSize = 14 THEN <<0, 0>> ELSE <<>>)

BufferOf(in) ==
    LET payload == EncodeStream(in.stream)
        L == Len(payload)
    IN CASE in.variant = "exact12" -> Header(12, L, Signature) \o payload
         [] in.variant = "crc" -> Header(14, L, Signature) \o payload \o <<0, 0>>
         [] in.variant = "truncated" ->
               Header(14, L, Signature) \o SubSeq(payload, 1, L - 1)
         [] in.variant = "overlong" -> Header(14, L + 2, Signature) \o payload
         [] in.variant = "badsig" -> Header(14, L, <<46, 70, 73, 88>>) \o payload
         [] in.variant = "short" -> SubSeq(Header(14, L, Signature), 1, 10)

\* sum of the declared byte widths of a field list
RECURSIVE BodySize(_, _)
BodySize(fields, i) ==
    IF i > Len(fields) THEN 0 ELSE fields[i].size + BodySize(fields, i + 1)

\* Every data message is preceded in the stream by a definition for its
\* slot and carries exactly the bytes the latest such definition declares.
WellFormedStream(stream) ==
    \A i \in 1..Len(stream) :
        LET m == Menu[stream[i]]
            defs == {j \in 1..(i - 1) :
                       Menu[stream[j]].def /\ Menu[stream[j]].slot = m.slot}
        IN ~m.def =>
             /\ defs # {}
             /\ LET j == CHOOSE x \in defs : \A y \in defs : y <= x
                IN Len(m.body) = BodySize(Menu[stream[j]].fields, 1)

\* the messages exactly fill the declared payload
WellFormed(in) ==
    /\ in.variant \in {"exact12", "crc"}
    /\ WellFormedStream(in.stream)

\* bytes 8..11 spell '.FIT'
SignatureValid(dv) ==
    /\ InRange(dv, 8, 4)
    /\ SubSeq(dv, 9, 12) = Signature

(***************************************************************************)
(* TSSCalculator (src/js/app.js).  Quotients are kept exact as reduced     *)
(* fractions; the rounding error of IEEE doubles is not modelled.          *)
(* totalTime is in seconds, totalDistance in metres; the intensity factor  *)
(* IF is carried in hundredths (Math.round(IF * 100) / 100).               *)
(***************************************************************************)
\* a * b on reduced fractions, cancelling across before multiplying
RMul(a, b) ==
    LET g1 == GCD(a.n, b.d)
        g2 == GCD(b.n, a.d)
    IN Ratio((a.n \div g1) * (b.n \div g2), (a.d \div g2) * (b.d \div g1))

\* Math.round of a fraction
RRound(r) == RoundDiv(r.n, r.d)

\* a <= b and a < b on fractions
RLeq(a, b) == a.n * b.d <= b.n * a.d
RLess(a, b) == a.n * b.d < b.n * a.d

\* formatPace / formatSwimPace: minutes and rounded seconds of a pace
formatPace(secondsPer) ==
    LET minutes == secondsPer.n \div (60 * secondsPer.d)
    IN [minutes |-> minutes,
        seconds |-> RoundDiv(secondsPer.n - 60 * secondsPer.d * minutes,
                             secondsPer.d)]

TSSResult(tss, type, intensity, method, np, pace, paceSeconds, avgHR) ==
    [tss |-> tss, type |-> type, intensityFactor |-> intensity, method |-> method, np |-> np,
     pace |-> pace, paceSeconds |-> paceSeconds, avgHR |-> avgHR]

\* Math.round(duration / 60)
RoundMinutes(duration) ==
    LET x == ToNumber(duration)
    IN IF IsNum(x) THEN Num(RoundDiv(x.n, 60)) ELSE NaN

calculateHRBasedTSS(a, th) ==
    LET duration == a.totalTime
        avgHR == a.avgHeartRate
    IN IF ~Truthy(duration) \/ ~Truthy(avgHR)
       THEN TSSResult(RoundMinutes(duration), "TSS", Num(70),
                      "duration_estimate", Undefined, Undefined, Undefined,
                      Undefined)
       ELSE LET intensity == Ratio(avgHR.n, th.lthr)
                durationHours == Ratio(duration.n, 3600)
                hrTss == RMul(RMul(durationHours, RMul(intensity, intensity)), Ratio(100, 1))
            IN TSSResult(Num(RRound(hrTss)), "hrTSS",
                         Num(RRound(RMul(intensity, Ratio(100, 1)))), "heart_rate",
                         Undefined, Undefined, Undefined, avgHR)

\* a cycling calculator that leaves the intensity factor out of the score
calculateCyclingTSSLinear(a, th) ==
    LET duration == a.totalTime
        np == Or(a.normalizedPower, a.avgPower)
    IN IF ~Truthy(np) \/ ~Truthy(duration)
       THEN calculateHRBasedTSS(a, th)
       ELSE LET intensity == Ratio(np.n, th.ftp)
                tss == RMul(RMul(Ratio(duration.n, 1), Ratio(np.n, 1)),
                            Ratio(100, th.ftp * 3600))
            IN TSSResult(Num(RRound(tss)), "TSS",
                         Num(RRound(RMul(intensity, Ratio(100, 1)))), "power",
                         np, Undefined, Undefined, Undefined)

calculateCyclingTSS(a, th) ==
    LET duration == a.totalTime
        np == Or(a.normalizedPower, a.avgPower)
    IN IF ~Truthy(np) \/ ~Truthy(duration)
       THEN calculateHRBasedTSS(a, th)
       ELSE LET intensity == Ratio(np.n, th.ftp)
                tss == RMul(RMul(RMul(Ratio(duration.n, 1), Ratio(np.n, 1)), intensity),
                            Ratio(100, th.ftp * 3600))
            IN TSSResult(Num(RRound(tss)), "TSS",
                         Num(RRound(RMul(intensity, Ratio(100, 1)))), "power",
                         np, Undefined, Undefined, Undefined)

\* a running calculator that applies the cubic (swimming) exponent
calculateRunningTSSCubic(a, th) ==
    LET duration == a.totalTime
        distance == a.totalDistance
    IN IF ~Truthy(duration) \/ ~Truthy(distance) \/ distance.n < 100
       THEN calculateHRBasedTSS(a, th)
       ELSE LET paceSecsPerKm == Ratio(duration.n * 1000, distance.n)
                intensity == RMul(Ratio(th.runThreshold, 1),
                           Ratio(paceSecsPerKm.d, paceSecsPerKm.n))
                durationHours == Ratio(duration.n, 3600)
                rtss == RMul(RMul(durationHours, RMul(intensity, RMul(intensity, intensity))),
                             Ratio(100, 1))
            IN TSSResult(Num(RRound(rtss)), "rTSS",
                         Num(RRound(RMul(intensity, Ratio(100, 1)))), "pace",
                         Undefined, formatPace(paceSecsPerKm), paceSecsPerKm,
                         Undefined)

calculateRunningTSS(a, th) ==
    LET duration == a.totalTime
        distance == a.totalDistance
    IN IF ~Truthy(duration) \/ ~Truthy(distance) \/ distance.n < 100
       THEN calculateHRBasedTSS(a, th)
       ELSE LET paceSecsPerKm == Ratio(duration.n * 1000, distance.n)
                intensity == RMul(Ratio(th.runThreshold, 1),
                           Ratio(paceSecsPerKm.d, paceSecsPerKm.n))
                durationHours == Ratio(duration.n, 3600)
                rtss == RMul(RMul(durationHours, RMul(intensity, intensity)), Ratio(100, 1))
            IN TSSResult(Num(RRound(rtss)), "rTSS",
                         Num(RRound(RMul(intensity, Ratio(100, 1)))), "pace",
                         Undefined, formatPace(paceSecsPerKm), paceSecsPerKm,
                         Undefined)

\* a swimming calculator that applies the running minimum of 100 m
calculateSwimmingTSSMin100(a, th) ==
    LET duration == a.totalTime
        distance == a.totalDistance
    IN IF ~Truthy(duration) \/ ~Truthy(distance) \/ distance.n < 100
       THEN calculateHRBasedTSS(a, th)
       ELSE LET pacePer100m == Ratio(duration.n * 100, distance.n)
                intensity == RMul(Ratio(th.swimThreshold, 1),
                                  Ratio(pacePer100m.d, pacePer100m.n))
                durationHours == Ratio(duration.n, 3600)
                stss == RMul(RMul(RMul(intensity, RMul(intensity, intensity)),
                                  durationHours), Ratio(100, 1))
            IN TSSResult(Num(RRound(stss)), "sTSS",
                         Num(RRound(RMul(intensity, Ratio(100, 1)))), "pace",
                         Undefined, formatPace(pacePer100m), pacePer100m,
                         Undefined)

calculateSwimmingTSS(a, th) ==
    LET duration == a.totalTime
        distance == a.totalDistance
    IN IF ~Truthy(duration) \/ ~Truthy(distance) \/ distance.n < 25
       THEN calculateHRBasedTSS(a, th)
       ELSE LET pacePer100m == Ratio(duration.n * 100, distance.n)
                intensity == RMul(Ratio(th.swimThreshold, 1),
                           Ratio(pacePer100m.d, pacePer100m.n))
                durationHours == Ratio(duration.n, 3600)
                stss == RMul(RMul(RMul(intensity, RMul(intensity, intensity)), durationHours),
                             Ratio(100, 1))
            IN TSSResult(Num(RRound(stss)), "sTSS",
                         Num(RRound(RMul(intensity, Ratio(100, 1)))), "pace",
                         Undefined, formatPace(pacePer100m), pacePer100m,
                         Undefined)

\* TSSCalculator.calculate: switch (activity.sport)
calculate(a, th) ==
    CASE a.sport = "cycling" -> calculateCyclingTSS(a, th)
      [] a.sport = "running" -> calculateRunningTSS(a, th)
      [] a.sport = "swimming" -> calculateSwimmingTSS(a, th)
      [] OTHER -> calculateHRBasedTSS(a, th)

\* TSSCalculator.recalculate: map the stored field names, then calculate
recalculate(stored, th) ==
    calculate([sport |-> stored.sport,
               totalTime |-> stored.duration,
               totalDistance |-> stored.distance,
               normalizedPower |-> stored.normalizedPower,
               avgPower |-> stored.avgPower,
               avgHeartRate |-> stored.avgHR], th)

\* settings.x || default (constructor)
OrDefault(v, default) == IF Truthy(v) THEN v.n ELSE default

\* new TSSCalculator(settings)
NewThresholds(settings) ==
    [ftp |-> OrDefault(settings.ftp, 300),
     runThreshold |-> OrDefault(settings.runThreshold, 256),
     swimThreshold |-> OrDefault(settings.swimThreshold, 100),
     lthr |-> OrDefault(settings.lthr, 155)]

\* an updateSettings that rebuilds the thresholds from the defaults
updateSettingsReset(th, settings) == NewThresholds(settings)

\* TSSCalculator.updateSettings: if (settings.x) this.x = settings.x
updateSettings(th, settings) ==
    [ftp |-> OrDefault(settings.ftp, th.ftp),
     runThreshold |-> OrDefault(settings.runThreshold, th.runThreshold),
     swimThreshold |-> OrDefault(settings.swimThreshold, th.swimThreshold),
     lthr |-> OrDefault(settings.lthr, th.lthr)]

\* inputs of the calculator; the distances sit on both sides of each
\* sport's minimum (100 m running, 25 m swimming)
Sports == {"cycling", "running", "swimming", "unknown"}
Durations == {Undefined, Num(0), Num(2560), Num(3600)}
DistancesOf(sport) ==
    IF sport = "swimming"
    THEN {Undefined, Num(0), Num(24), Num(25), Num(1500)}
    ELSE {Undefined, Num(0), Num(99), Num(100), Num(10000)}
Distances == UNION {DistancesOf(sport) : sport \in Sports}
Powers == {Null, Num(200)}
AvgPowers == {Null, Num(180)}
HeartRates == {Null, Num(140)}

Activities ==
    {a \in [sport : Sports, totalTime : Durations, totalDistance : Distances,
            normalizedPower : Powers, avgPower : AvgPowers,
            avgHeartRate : HeartRates] :
        a.totalDistance \in DistancesOf(a.sport)}

StoredActivities ==
    {st \in [sport : Sports, duration : Durations, distance : Distances,
             normalizedPower : Powers, avgPower : AvgPowers, avgHR : HeartRates] :
        st.distance \in DistancesOf(st.sport)}

\* A string is a sequence of characters.
Digits == <<"0", "1", "2", "3", "4", "5", "6", "7", "8", "9">>

IsDigit(c) == \E i \in 1..Len(Digits) : Digits[i] = c

DigitValue(c) == (CHOOSE i \in 1..Len(Digits) : Digits[i] = c) - 1

RECURSIVE DecimalValue(_, _)
\* the number written by the first n characters of s, all digits
DecimalValue(s, n) ==
    IF n = 0 THEN 0 ELSE 10 * DecimalValue(s, n - 1) + DigitValue(s[n])

\* parseInt(s): the number written by the longest prefix of digits, NaN when
\* s does not start with a digit (strings with blanks, a sign or the prefix
\* 0x left out)
parseInt(s) ==
    LET n == Cardinality({i \in 1..Len(s) : \A j \in 1..i : IsDigit(s[j])})
    IN IF n = 0 THEN NaN ELSE Num(DecimalValue(s, n))

\* TSSCalculator.parsePace: split(':') gives one more part than separators
parsePace(paceString) ==
    LET seps == {i \in 1..Len(paceString) : paceString[i] = ":"}
    IN IF Cardinality(seps) + 1 # 2 THEN Null
       ELSE LET p == CHOOSE i \in seps : TRUE
                minutes == parseInt(SubSeq(paceString, 1, p - 1))
                seconds == parseInt(SubSeq(paceString, p + 1, Len(paceString)))
            IN IF minutes = NaN \/ seconds = NaN THEN NaN
               ELSE Num(minutes.n * 60 + seconds.n)

\* the pace strings handed to parsePace: one, two or three parts
PaceParts ==
    {<<>>, <<"1">>, <<"4">>, <<"1", "6">>, <<"4", "0">>, <<"a">>, <<"4", "a">>}
PaceStrings ==
    PaceParts
    \cup {p \o <<":">> \o q : p \in PaceParts, q \in PaceParts}
    \cup {p \o <<":">> \o q \o <<":">> \o <<"0">> :
            p \in PaceParts, q \in PaceParts}

\* the objects App passes to updateSettings: an ftp and two parsed paces,
\* null when parsePace rejects the string; lthr is never passed
SettingsObjects ==
    [ftp : {Num(300), Num(250)},
     runThreshold : {Null, Num(0), Num(256), Num(300)},
     swimThreshold : {Null, Num(100), Num(120)},
     lthr : {Undefined, Num(160)}]

(***************************************************************************)
(* PMCEngine (src/unnamed/part_000).                                       *)
(* A date string 'YYYY-MM-DD' is the number of its day; a Date object is   *)
(* an instant in hours since 00:00 UTC of day 0.  Day 0 is a Monday.       *)
(* The accumulators ctl and atl are fixed-point numbers in thousandths,    *)
(* the decay factors in ten-thousandths; entries carry ctl, atl and tsb in *)
(* tenths (Math.round(x * 10) / 10).                                       *)
(***************************************************************************)
Today == 2
MaxTSS == 100

\* new Date(): some hour of today
Now == 24 * Today + 15

DateStr(day) == [k |-> "str", day |-> day]
DateObj(hour) == [k |-> "date", hour |-> hour]

\* formatDate: a string is returned as it is, a Date gives its UTC day
formatDate(date) == IF date.k = "str" THEN date.day ELSE date.hour \div 24

AccScale == 1000
DecayScale == 10000
\* Math.exp(-1 / 42) and Math.exp(-1 / 7)
ctlDecay == 9765
\* the fatigue factor taken with the fitness time constant
atlDecayOf42 == ctlDecay
atlDecay == 8669

\* Math.round(x * 10) / 10 of an accumulator value
RoundTenth(x) == RoundDiv(x, AccScale \div 10)

\* this.dailyTSS.get(dateStr) || 0
LedgerTSS(ledger, day) == IF day \in DOMAIN ledger THEN ledger[day] ELSE 0

MapSet(f, key, value) ==
    [x \in DOMAIN f \cup {key} |-> IF x = key THEN value ELSE f[x]]

EmptyMap == [x \in {} |-> 0]

\* an addTSS that replaces the day's value
addTSSReplace(ledger, date, tss) == MapSet(ledger, formatDate(date), tss)

addTSS(ledger, date, tss) ==
    MapSet(ledger, formatDate(date), LedgerTSS(ledger, formatDate(date)) + tss)

setDailyTSS(ledger, date, tss) == MapSet(ledger, formatDate(date), tss)

MinOf(S) == CHOOSE x \in S : \A y \in S : x <= y
MaxOf(S) == CHOOSE x \in S : \A y \in S : y <= x

\* The time zone of the environment.  Date.getDate, setDate and getDay work
\* in local time, toISOString and new Date('YYYY-MM-DD') in UTC.  Europe/Rome
\* is UTC+1 until summer time starts at 01:00 UTC of day DSTDay, UTC+2 after.
Zones == {"UTC", "Europe/Rome"}
DSTDay == 1

utcOffset(tz, hour) ==
    IF tz = "UTC" THEN 0 ELSE IF hour < 24 * DSTDay + 1 THEN 1 ELSE 2

toLocal(tz, hour) == hour + utcOffset(tz, hour)

\* the instant of a local time; a local time skipped by the change to summer
\* time is read with the offset in force before the change
fromLocal(tz, local) ==
    IF tz = "UTC" THEN local
    ELSE IF utcOffset(tz, local - 1) = 1 THEN local - 1
    ELSE IF utcOffset(tz, local - 2) = 2 THEN local - 2
    ELSE local - 1

\* date.setDate(date.getDate() + n)
addDays(tz, hour, n) == fromLocal(tz, toLocal(tz, hour) + 24 * n)

RECURSIVE DatesFrom(_, _, _)
\* while (current <= end) { dates.push(formatDate(current)); current += 1 day }
DatesFrom(tz, current, end) ==
    IF current > end THEN <<>>
    ELSE <<formatDate(DateObj(current))>>
         \o DatesFrom(tz, addDays(tz, current, 1), end)

\* generateDateRange: new Date('YYYY-MM-DD') is that day's midnight in UTC
generateDateRange(tz, startDay, endDay) ==
    DatesFrom(tz, 24 * startDay, 24 * endDay)

RECURSIVE CalcLoopPostTSB(_, _, _, _, _)
\* a loop that takes tsb after the accumulators were updated
CalcLoopPostTSB(ledger, allDates, i, ctl, atl) ==
    IF i > Len(allDates) THEN <<>>
    ELSE LET dateStr == allDates[i]
             tss == LedgerTSS(ledger, dateStr)
             ctl2 == (ctl * ctlDecay + tss * AccScale * (DecayScale - ctlDecay))
                     \div DecayScale
             atl2 == (atl * atlDecay + tss * AccScale * (DecayScale - atlDecay))
                     \div DecayScale
             tsb == ctl2 - atl2
             pmcEntry == [date |-> dateStr, tss |-> tss,
                          ctl |-> RoundTenth(ctl2), atl |-> RoundTenth(atl2),
                          tsb |-> RoundTenth(tsb)]
         IN <<[entry |-> pmcEntry, ctl |-> ctl2, atl |-> atl2]>>
            \o CalcLoopPostTSB(ledger, allDates, i + 1, ctl2, atl2)

RECURSIVE CalcLoopNegFactor(_, _, _, _, _)
\* a loop whose factors are decay - 1 where the code has 1 - decay
CalcLoopNegFactor(ledger, allDates, i, ctl, atl) ==
    IF i > Len(allDates) THEN <<>>
    ELSE LET dateStr == allDates[i]
             tss == LedgerTSS(ledger, dateStr)
             tsb == ctl - atl
             ctl2 == (ctl * ctlDecay + tss * AccScale * (ctlDecay - DecayScale))
                     \div DecayScale
             atl2 == (atl * atlDecay + tss * AccScale * (atlDecay - DecayScale))
                     \div DecayScale
             pmcEntry == [date |-> dateStr, tss |-> tss,
                          ctl |-> RoundTenth(ctl2), atl |-> RoundTenth(atl2),
                          tsb |-> RoundTenth(tsb)]
         IN <<[entry |-> pmcEntry, ctl |-> ctl2, atl |-> atl2]>>
            \o CalcLoopNegFactor(ledger, allDates, i + 1, ctl2, atl2)

RECURSIVE CalcLoop(_, _, _, _, _)
\* for (const dateStr of allDates): one element per day, the entry and the
\* values of ctl and atl at the end of the iteration
CalcLoop(ledger, allDates, i, ctl, atl) ==
    IF i > Len(allDates) THEN <<>>
    ELSE LET dateStr == allDates[i]
             tss == LedgerTSS(ledger, dateStr)
             tsb == ctl - atl
             ctl2 == (ctl * ctlDecay + tss * AccScale * (DecayScale - ctlDecay))
                     \div DecayScale
             atl2 == (atl * atlDecay + tss * AccScale * (DecayScale - atlDecay))
                     \div DecayScale
             pmcEntry == [date |-> dateStr, tss |-> tss,
                          ctl |-> RoundTenth(ctl2), atl |-> RoundTenth(atl2),
                          tsb |-> RoundTenth(tsb)]
         IN <<[entry |-> pmcEntry, ctl |-> ctl2, atl |-> atl2]>>
            \o CalcLoop(ledger, allDates, i + 1, ctl2, atl2)

\* PMCEngine.calculate: the loop's iterations (empty for an empty ledger)
CalcSteps(tz, ledger, startDate, endDate) ==
    IF DOMAIN ledger = {} THEN <<>>
    ELSE LET firstDate == IF startDate.k # "null" THEN formatDate(startDate)
                          ELSE MinOf(DOMAIN ledger)
             lastDate == IF endDate.k # "null" THEN formatDate(endDate)
                         ELSE formatDate(DateObj(Now))
         IN CalcLoop(ledger, generateDateRange(tz, firstDate, lastDate), 1, 0, 0)

\* the entries calculate returns
CalcResults(steps) == [i \in 1..Len(steps) |-> steps[i].entry]

\* this.pmcData.set(dateStr, pmcEntry) for every computed day; where a day
\* was computed twice the later entry stays
StoreEntries(table, steps) ==
    LET days == {steps[i].entry.date : i \in 1..Len(steps)}
        lastOf(d) == MaxOf({i \in 1..Len(steps) : steps[i].entry.date = d})
    IN [d \in DOMAIN table \cup days |->
          IF d \in days THEN steps[lastOf(d)].entry ELSE table[d]]

calculateRampRate(table, days) ==
    LET today == formatDate(DateObj(Now))
        weekAgo == formatDate(DateObj(Now - days * 24))
    IN IF today \notin DOMAIN table \/ weekAgo \notin DOMAIN table THEN 0
       ELSE table[today].ctl - table[weekAgo].ctl

\* the derived table after getCurrentPMC's conditional recalculation
CurrentTable(tz, ledger, table) ==
    IF DOMAIN table = {} /\ DOMAIN ledger # {}
    THEN StoreEntries(table, CalcSteps(tz, ledger,
                                       DateStr(MinOf(DOMAIN ledger)),
                                       DateStr(formatDate(DateObj(Now)))))
    ELSE table

\* a getCurrentPMC without the fallback to the latest entry
getCurrentPMCTodayOnly(tz, ledger, table) ==
    LET today == formatDate(DateObj(Now))
        t == CurrentTable(tz, ledger, table)
        pmc == IF today \in DOMAIN t THEN t[today]
               ELSE [ctl |-> 0, atl |-> 0, tsb |-> 0]
    IN [ctl |-> pmc.ctl, atl |-> pmc.atl, tsb |-> pmc.tsb,
        rampRate |-> calculateRampRate(t, 7)]

getCurrentPMC(tz, ledger, table) ==
    LET today == formatDate(DateObj(Now))
        t == CurrentTable(tz, ledger, table)
        pmc == IF today \in DOMAIN t THEN t[today]
               ELSE IF DOMAIN t # {} THEN t[MaxOf(DOMAIN t)]
               ELSE [ctl |-> 0, atl |-> 0, tsb |-> 0]
    IN [ctl |-> pmc.ctl, atl |-> pmc.atl, tsb |-> pmc.tsb,
        rampRate |-> calculateRampRate(t, 7)]

RECURSIVE HistoryFrom(_, _, _, _)
\* while (current <= endDate) { push pmcData.get(formatDate(current)) if any }
HistoryFrom(tz, table, current, endDate) ==
    IF current > endDate THEN <<>>
    ELSE LET dateStr == formatDate(DateObj(current))
         IN (IF dateStr \in DOMAIN table THEN <<table[dateStr]>> ELSE <<>>)
            \o HistoryFrom(tz, table, addDays(tz, current, 1), endDate)

RECURSIVE WeekTotals(_, _, _, _)
\* the loop over the days of one week: [weeklyTSS, activities]
WeekTotals(tz, ledger, current, weekEnd) ==
    IF ~(current <= weekEnd /\ current <= Now)
    THEN [weeklyTSS |-> 0, activities |-> 0]
    ELSE LET tss == LedgerTSS(ledger, formatDate(DateObj(current)))
             rest == WeekTotals(tz, ledger, addDays(tz, current, 1), weekEnd)
         IN IF tss > 0
            THEN [weeklyTSS |-> rest.weeklyTSS + tss,
                  activities |-> rest.activities + 1]
            ELSE rest

\* Date.getDay(): the local weekday, 0 is Sunday; summer time starts on a
\* Sunday, so day DSTDay is one and day 0 a Saturday
getDay(tz, hour) == ((toLocal(tz, hour) \div 24) - DSTDay) % 7

\* one summary of getWeeklySummaries (week number and year left out)
WeekSummary(tz, ledger, table, w) ==
    LET weekEnd == addDays(tz, Now, -(7 * w))
        day == getDay(tz, weekEnd)
        weekStart == addDays(tz, weekEnd, -(IF day = 0 THEN 6 ELSE day - 1))
        totals == WeekTotals(tz, ledger, weekStart, weekEnd)
        endStr == formatDate(DateObj(IF weekEnd > Now THEN Now ELSE weekEnd))
        has == endStr \in DOMAIN table
    IN [weekStart |-> formatDate(DateObj(weekStart)),
        weekEnd |-> endStr,
        totalTSS |-> totals.weeklyTSS,
        activities |-> totals.activities,
        avgDailyTSS |-> IF totals.activities > 0
                        THEN RoundDiv(totals.weeklyTSS, 7) ELSE 0,
        ctl |-> IF has THEN table[endStr].ctl ELSE 0,
        atl |-> IF has THEN table[endStr].atl ELSE 0,
        tsb |-> IF has THEN table[endStr].tsb ELSE 0]

\* summaries.reverse(): oldest week first
getWeeklySummaries(tz, ledger, table, weeks) ==
    [i \in 1..weeks |-> WeekSummary(tz, ledger, table, weeks - i)]

\* App.formatLocalDate: the local calendar day of an instant
formatLocalDate(tz, hour) == toLocal(tz, hour) \div 24

RECURSIVE GroupByDate(_, _, _)
\* App.loadActivities: the tss of the stored activities summed per
\* new Date(a.startTime).toISOString().split('T')[0]
GroupByDate(acts, i, grouped) ==
    IF i > Len(acts) THEN grouped
    ELSE LET a == acts[i]
             date == formatDate(DateObj(a.startTime))
             existing == LedgerTSS(grouped, date)
         IN GroupByDate(acts, i + 1,
                        MapSet(grouped, date, existing + Or(a.tss, Num(0)).n))

\* the stored activities: one that starts at 23:00 UTC of day 0, after local
\* midnight east of Greenwich, and two today, one of them without a tss
StoredRecords ==
    {[startTime |-> 23, tss |-> Num(50)],
     [startTime |-> 24 * Today + 10, tss |-> Num(50)],
     [startTime |-> 24 * Today + 10, tss |-> Undefined]}

StoredList ==
    {<<>>} \cup {<<a>> : a \in StoredRecords}
           \cup {<<a, b>> : a \in StoredRecords, b \in StoredRecords}

\* arguments of the engine's operations
LedgerDays == {0, 1, Today}
SetValues == {50}
AddValues == {50}
RangeStarts == {Null, DateStr(0), DateStr(1)}
RangeEnds == {Null, DateStr(1), DateStr(Today)}
HistoryDays == {1, 7}
WeekCounts == {1, 2}

(***************************************************************************)
(* State                                                                   *)
(***************************************************************************)
VARIABLES
    input,              \* the file handed to the running / last parse call
    buffer,             \* its bytes
    pc,                 \* "idle", "loop", "done" (returned), "threw"
    offset,             \* let offset
    endOffset,          \* const endOffset
    localMessageTypes,  \* this.localMessageTypes, slot -> msgDef
    activity,           \* const activity
    error,              \* the error parse threw
    parses,             \* parse calls made on this FITParser
    msgCount,           \* parseMessage calls made by the current parse
    thresholds,         \* TSSCalculator: this.ftp, runThreshold, swimThreshold, lthr
    tssPc,              \* "idle", or the TSSCalculator method that returned
    tssInput,           \* the activity given to the last calculate
    tssStored,          \* the stored record given to the last recalculate
    tssResult,          \* the TSSResult it returned
    tssSettings,        \* the settings given to the last updateSettings
    paceString,         \* the string given to the last parsePace
    paceResult,         \* the value it returned
    dailyTSS,           \* PMCEngine: this.dailyTSS, day -> tss
    pmcData,            \* this.pmcData, day -> entry
    pmcOp,              \* "idle", or the PMCEngine method that returned
    pmcSteps,           \* the iterations of the calculate loop it ran
    pmcResult,          \* the value it returned
    pmcArgs,            \* the arguments it was called with
    timeZone            \* the environment's time zone

parserVars == <<input, buffer, pc, offset, endOffset, localMessageTypes,
                activity, error, parses, msgCount>>

tssVars == <<thresholds, tssPc, tssInput, tssStored, tssResult, tssSettings,
             paceString, paceResult>>

pmcVars == <<dailyTSS, pmcData, pmcOp, pmcSteps, pmcResult, pmcArgs, timeZone>>

vars == <<parserVars, tssVars, pmcVars>>

\* new FITParser()
EmptyRegistry == [s \in {} |-> Null]

ParserInit ==
    /\ input = [stream |-> <<>>, variant |-> "crc"]
    /\ buffer = <<>>
    /\ pc = "idle"
    /\ offset = 0
    /\ endOffset = 0
    /\ localMessageTypes = EmptyRegistry
    /\ activity = NewActivity
    /\ error = "none"
    /\ parses = 0
    /\ msgCount = 0

\* a header validation that compares only the first three signature bytes
HeaderErrorLoose(dv) ==
    IF ~InRange(dv, 0, 1) \/ ~InRange(dv, 1, 1) \/ ~InRange(dv, 4, 4)
       \/ ~InRange(dv, 8, 1) \/ ~InRange(dv, 9, 1) \/ ~InRange(dv, 10, 1)
       \/ ~InRange(dv, 11, 1)
    THEN "RangeError"
    ELSE IF <<getUint8(dv, 8), getUint8(dv, 9), getUint8(dv, 10)>>
            # SubSeq(Signature, 1, 3)
    THEN "Invalid FIT file signature"
    ELSE "none"

\* the error the header validation of parse() raises, "none" if it passes
HeaderError(dv) ==
    IF ~InRange(dv, 0, 1) \/ ~InRange(dv, 1, 1) \/ ~InRange(dv, 4, 4)
       \/ ~InRange(dv, 8, 1) \/ ~InRange(dv, 9, 1) \/ ~InRange(dv, 10, 1)
       \/ ~InRange(dv, 11, 1)
    THEN "RangeError"
    ELSE IF <<getUint8(dv, 8), getUint8(dv, 9), getUint8(dv, 10),
              getUint8(dv, 11)>> # Signature
    THEN "Invalid FIT file signature"
    ELSE "none"

\* parse(buffer), up to the message loop
ParseBegin(in) ==
    /\ pc = "idle"
    /\ parses < MaxParses
    /\ LET dv == BufferOf(in)
           err == HeaderError(dv)
       IN /\ input' = in
          /\ buffer' = dv
          /\ activity' = NewActivity
          /\ parses' = parses + 1
          /\ msgCount' = 0
          /\ error' = err
          /\ IF err # "none"
             THEN /\ pc' = "threw"
                  /\ UNCHANGED <<offset, endOffset>>
             ELSE /\ pc' = "loop"
                  /\ offset' = getUint8(dv, 0)
                  /\ endOffset' = getUint8(dv, 0) + getUint32(dv, 4, TRUE)
          /\ UNCHANGED <<localMessageTypes, tssVars, pmcVars>>

\* one iteration of while (offset < endOffset)
ParseStep ==
    /\ pc = "loop"
    /\ offset < endOffset
    /\ LET r == parseMessage(buffer, offset, localMessageTypes, activity)
       IN /\ msgCount' = msgCount + 1
          /\ localMessageTypes' = r.lmt
          /\ activity' = r.activity
          /\ IF r.threw
             THEN /\ pc' = "threw"
                  /\ error' = "RangeError"
                  /\ UNCHANGED offset
             ELSE /\ offset' = r.offset
                  /\ UNCHANGED <<pc, error>>
    /\ UNCHANGED <<input, buffer, endOffset, parses, tssVars, pmcVars>>

\* loop exit: calculateDerivedMetrics(activity); return activity
ParseEnd ==
    /\ pc = "loop"
    /\ offset >= endOffset
    /\ activity' = calculateDerivedMetrics(activity)
    /\ pc' = "done"
    /\ UNCHANGED <<input, buffer, offset, endOffset, localMessageTypes, error,
                   parses, msgCount, tssVars, pmcVars>>

\* The caller (importFITFile) takes the Activity or the error; the locals of
\* the finished call are gone, the FITParser object remains.
ParseReturn ==
    /\ pc \in {"done", "threw"}
    /\ pc' = "idle"
    /\ input' = [stream |-> <<>>, variant |-> "crc"]
    /\ buffer' = <<>>
    /\ offset' = 0
    /\ endOffset' = 0
    /\ activity' = NewActivity
    /\ error' = "none"
    /\ msgCount' = 0
    /\ UNCHANGED <<localMessageTypes, parses, tssVars, pmcVars>>

ParserNext ==
    \/ \E in \in Inputs : ParseBegin(in)
    \/ ParseStep
    \/ ParseEnd
    \/ ParseReturn

(***************************************************************************)
(* TSSCalculator as used by App: one calculator, whose thresholds change   *)
(* through updateSettings and which calculate / recalculate read.          *)
(***************************************************************************)
NoActivity ==
    [sport |-> "unknown", totalTime |-> Undefined, totalDistance |-> Undefined,
     normalizedPower |-> Null, avgPower |-> Null, avgHeartRate |-> Null]

NoStored ==
    [sport |-> "unknown", duration |-> Undefined, distance |-> Undefined,
     normalizedPower |-> Null, avgPower |-> Null, avgHR |-> Null]

NoResult ==
    TSSResult(Undefined, "none", Undefined, "none", Undefined, Undefined,
              Undefined, Undefined)

NoSettings ==
    [ftp |-> Undefined, runThreshold |-> Undefined,
     swimThreshold |-> Undefined, lthr |-> Undefined]

\* new TSSCalculator() with the defaults of App.settings
TSSInit ==
    /\ thresholds = NewThresholds([ftp |-> Num(300), runThreshold |-> Num(256),
                                   swimThreshold |-> Num(100), lthr |-> Undefined])
    /\ tssPc = "idle"
    /\ tssInput = NoActivity
    /\ tssStored = NoStored
    /\ tssResult = NoResult
    /\ tssSettings = NoSettings
    /\ paceString = <<>>
    /\ paceResult = Undefined

UpdateSettings(settings) ==
    /\ tssPc = "idle"
    /\ thresholds' = updateSettings(thresholds, settings)
    /\ tssSettings' = settings
    /\ tssPc' = "updateSettings"
    /\ UNCHANGED <<tssInput, tssStored, tssResult, paceString, paceResult,
                   parserVars, pmcVars>>

Calculate(a) ==
    /\ tssPc = "idle"
    /\ tssInput' = a
    /\ tssResult' = calculate(a, thresholds)
    /\ tssPc' = "calculate"
    /\ UNCHANGED <<thresholds, tssStored, tssSettings, paceString, paceResult,
                   parserVars, pmcVars>>

\* a recalculate that zeroes the stored duration it has used
RecalculateConsuming(stored) ==
    /\ tssPc = "idle"
    /\ tssStored' = [stored EXCEPT !.duration = Num(0)]
    /\ tssResult' = recalculate(stored, thresholds)
    /\ tssPc' = "recalculate"
    /\ UNCHANGED <<thresholds, tssInput, tssSettings, paceString, paceResult,
                   parserVars, pmcVars>>

\* tssStored is the stored record as the call leaves it
Recalculate(stored) ==
    /\ tssPc = "idle"
    /\ tssStored' = stored
    /\ tssResult' = recalculate(stored, thresholds)
    /\ tssPc' = "recalculate"
    /\ UNCHANGED <<thresholds, tssInput, tssSettings, paceString, paceResult,
                   parserVars, pmcVars>>

\* an import that stores the heart rate under the decoder's key: the record
\* has no avgHR
importRecordDecoderKey(a) ==
    [sport |-> a.sport, duration |-> a.totalTime, distance |-> a.totalDistance,
     normalizedPower |-> a.normalizedPower, avgPower |-> a.avgPower,
     avgHR |-> Undefined]

\* the fields of the record importFITFile builds that recalculate reads
importRecord(a) ==
    [sport |-> a.sport, duration |-> a.totalTime, distance |-> a.totalDistance,
     normalizedPower |-> a.normalizedPower, avgPower |-> a.avgPower,
     avgHR |-> a.avgHeartRate]

\* App.importFITFile, from the decoded Activity on: tssResult is what
\* calculate returned, tssStored the record handed to the database
ImportFITFile(a) ==
    /\ tssPc = "idle"
    /\ tssInput' = a
    /\ tssResult' = calculate(a, thresholds)
    /\ tssStored' = importRecord(a)
    /\ tssPc' = "importFITFile"
    /\ UNCHANGED <<thresholds, tssSettings, paceString, paceResult,
                   parserVars, pmcVars>>

\* recalculate on the record of the import just made, the thresholds being
\* those of the import
RecalculateImported ==
    /\ tssPc = "importFITFile"
    /\ tssResult' = recalculate(tssStored, thresholds)
    /\ tssPc' = "recalculate"
    /\ UNCHANGED <<thresholds, tssInput, tssStored, tssSettings, paceString,
                   paceResult, parserVars, pmcVars>>

\* TSSCalculator.parsePace, a static method
ParsePace(str) ==
    /\ tssPc = "idle"
    /\ paceString' = str
    /\ paceResult' = parsePace(str)
    /\ tssPc' = "parsePace"
    /\ UNCHANGED <<thresholds, tssInput, tssStored, tssResult, tssSettings,
                   parserVars, pmcVars>>

\* the caller has taken the result
TSSReturn ==
    /\ tssPc # "idle"
    /\ tssPc' = "idle"
    /\ tssInput' = NoActivity
    /\ tssStored' = NoStored
    /\ tssResult' = NoResult
    /\ tssSettings' = NoSettings
    /\ paceString' = <<>>
    /\ paceResult' = Undefined
    /\ UNCHANGED <<thresholds, parserVars, pmcVars>>

TSSNext ==
    \/ \E settings \in SettingsObjects : UpdateSettings(settings)
    \/ \E a \in Activities : Calculate(a)
    \/ \E stored \in StoredActivities : Recalculate(stored)
    \/ \E str \in PaceStrings : ParsePace(str)
    \/ \E a \in Activities : ImportFITFile(a)
    \/ RecalculateImported
    \/ TSSReturn

(***************************************************************************)
(* PMCEngine: one engine, as App holds it                                  *)
(***************************************************************************)
\* new PMCEngine()
PMCInit ==
    /\ dailyTSS = EmptyMap
    /\ pmcData = EmptyMap
    /\ pmcOp = "idle"
    /\ pmcSteps = <<>>
    /\ pmcResult = <<>>
    /\ pmcArgs = <<>>
    /\ timeZone \in Zones

SetDailyTSS(date, tss) ==
    /\ pmcOp = "idle"
    /\ dailyTSS' = setDailyTSS(dailyTSS, date, tss)
    /\ pmcOp' = "setDailyTSS"
    /\ pmcArgs' = <<date, tss>>
    /\ pmcResult' = <<>>
    /\ UNCHANGED <<pmcData, pmcSteps, parserVars, tssVars, timeZone>>

AddTSS(date, tss) ==
    /\ pmcOp = "idle"
    /\ LedgerTSS(dailyTSS, formatDate(date)) + tss <= MaxTSS
    /\ dailyTSS' = addTSS(dailyTSS, date, tss)
    /\ pmcOp' = "addTSS"
    /\ pmcArgs' = <<date, tss>>
    /\ pmcResult' = <<>>
    /\ UNCHANGED <<pmcData, pmcSteps, parserVars, tssVars, timeZone>>

\* a calculate that consumes the ledger it has folded in
PMCCalculateConsuming(startDate, endDate) ==
    /\ pmcOp = "idle"
    /\ LET steps == CalcSteps(timeZone, dailyTSS, startDate, endDate)
       IN /\ pmcSteps' = steps
          /\ pmcData' = StoreEntries(pmcData, steps)
          /\ pmcResult' = CalcResults(steps)
    /\ pmcOp' = "calculate"
    /\ pmcArgs' = <<startDate, endDate>>
    /\ dailyTSS' = EmptyMap
    /\ UNCHANGED <<parserVars, tssVars, timeZone>>

PMCCalculate(startDate, endDate) ==
    /\ pmcOp = "idle"
    /\ LET steps == CalcSteps(timeZone, dailyTSS, startDate, endDate)
       IN /\ pmcSteps' = steps
          /\ pmcData' = StoreEntries(pmcData, steps)
          /\ pmcResult' = CalcResults(steps)
    /\ pmcOp' = "calculate"
    /\ pmcArgs' = <<startDate, endDate>>
    /\ UNCHANGED <<dailyTSS, parserVars, tssVars, timeZone>>

GetCurrentPMC ==
    /\ pmcOp = "idle"
    /\ pmcData' = CurrentTable(timeZone, dailyTSS, pmcData)
    /\ pmcResult' = getCurrentPMC(timeZone, dailyTSS, pmcData)
    /\ pmcOp' = "getCurrentPMC"
    /\ pmcArgs' = <<>>
    /\ UNCHANGED <<dailyTSS, pmcSteps, parserVars, tssVars, timeZone>>

GetHistory(days) ==
    /\ pmcOp = "idle"
    /\ LET endDate == Now
           startDate == Now - days * 24
           steps == CalcSteps(timeZone, dailyTSS,
                              DateObj(startDate), DateObj(endDate))
           table == StoreEntries(pmcData, steps)
       IN /\ pmcSteps' = steps
          /\ pmcData' = table
          /\ pmcResult' = HistoryFrom(timeZone, table, startDate, endDate)
    /\ pmcOp' = "getHistory"
    /\ pmcArgs' = <<days>>
    /\ UNCHANGED <<dailyTSS, parserVars, tssVars, timeZone>>

GetWeeklySummaries(weeks) ==
    /\ pmcOp = "idle"
    /\ pmcResult' = getWeeklySummaries(timeZone, dailyTSS, pmcData, weeks)
    /\ pmcOp' = "getWeeklySummaries"
    /\ pmcArgs' = <<weeks>>
    /\ UNCHANGED <<dailyTSS, pmcData, pmcSteps, parserVars, tssVars, timeZone>>

\* App.loadActivities: clear the engine, rebuild the ledger from the stored
\* activities and compute the table from the first ledger day up to now
LoadActivities(acts) ==
    /\ pmcOp = "idle"
    /\ LET grouped == GroupByDate(acts, 1, EmptyMap)
       IN /\ dailyTSS' = grouped
          /\ pmcData' = IF DOMAIN grouped = {} THEN EmptyMap
                        ELSE StoreEntries(EmptyMap,
                                 CalcSteps(timeZone, grouped,
                                           DateStr(MinOf(DOMAIN grouped)),
                                           DateObj(Now)))
    /\ pmcOp' = "loadActivities"
    /\ pmcArgs' = <<acts>>
    /\ pmcSteps' = <<>>
    /\ pmcResult' = <<>>
    /\ UNCHANGED <<parserVars, tssVars, timeZone>>

\* PMCEngine.clear
Clear ==
    /\ pmcOp = "idle"
    /\ dailyTSS' = EmptyMap
    /\ pmcData' = EmptyMap
    /\ pmcOp' = "clear"
    /\ pmcArgs' = <<>>
    /\ pmcResult' = <<>>
    /\ UNCHANGED <<pmcSteps, parserVars, tssVars, timeZone>>

\* the caller has taken the result
PMCReturn ==
    /\ pmcOp # "idle"
    /\ pmcOp' = "idle"
    /\ pmcArgs' = <<>>
    /\ pmcSteps' = <<>>
    /\ pmcResult' = <<>>
    /\ UNCHANGED <<dailyTSS, pmcData, parserVars, tssVars, timeZone>>

PMCNext ==
    \/ \E d \in LedgerDays, v \in SetValues : SetDailyTSS(DateStr(d), v)
    \/ \E d \in LedgerDays, v \in AddValues : AddTSS(DateStr(d), v)
    \/ \E a \in RangeStarts, b \in RangeEnds : PMCCalculate(a, b)
    \/ GetCurrentPMC
    \/ \E days \in HistoryDays : GetHistory(days)
    \/ \E weeks \in WeekCounts : GetWeeklySummaries(weeks)
    \/ \E acts \in StoredList : LoadActivities(acts)
    \/ Clear
    \/ PMCReturn

Init == ParserInit /\ TSSInit /\ PMCInit

\* FITParser and TSSCalculator never read the time zone
InitUTC == Init /\ timeZone = "UTC"

SpecParser == InitUTC /\ [][ParserNext]_vars

\* the step of a call that is inside the message loop: an iteration
\* (ParseStep) or the exit (ParseEnd); no other action is enabled there
LoopMove ==
    /\ pc = "loop"
    /\ pc' \in {"loop", "done", "threw"}
    /\ msgCount' \in {msgCount, msgCount + 1}

\* parse is synchronous: once called, it runs on until it returns or throws
SpecParserFair == SpecParser /\ WF_<<pc, msgCount>>(LoopMove)

SpecTSS == InitUTC /\ [][TSSNext]_vars

SpecPMC == Init /\ [][PMCNext]_vars

(***************************************************************************)
(* parse(buffer) on a FITParser that has decoded nothing before            *)
(***************************************************************************)
RECURSIVE MessageLoop(_, _, _, _, _)
\* while (offset < endOffset) { offset = parseMessage(...).offset }
MessageLoop(dv, off, end, lmt, act) ==
    IF off >= end
    THEN [threw |-> FALSE, offset |-> off, lmt |-> lmt, activity |-> act]
    ELSE LET r == parseMessage(dv, off, lmt, act)
         IN IF r.threw THEN r
            ELSE MessageLoop(dv, r.offset, end, r.lmt, r.activity)

FreshParse(dv) ==
    IF HeaderError(dv) # "none"
    THEN [threw |-> TRUE, activity |-> NewActivity]
    ELSE LET r == MessageLoop(dv, getUint8(dv, 0),
                              getUint8(dv, 0) + getUint32(dv, 4, TRUE),
                              EmptyRegistry, NewActivity)
         IN IF r.threw THEN [threw |-> TRUE, activity |-> r.activity]
            ELSE [threw |-> FALSE,
                  activity |-> calculateDerivedMetrics(r.activity)]

(***************************************************************************)
(* Properties of the decoder                                               *)
(***************************************************************************)

\* C1: parse throws only when the container signature is invalid; a buffer
\* whose bytes 8..11 spell '.FIT' always yields an Activity.
C1_ThrowsOnlyOnBadSignature ==
    pc = "threw" => ~SignatureValid(buffer)

\* C2: the result of parse(buffer) depends only on buffer: it is the result
\* a fresh FITParser gives for the same buffer, whatever was parsed before.
C2_ResultDependsOnlyOnBuffer ==
    /\ pc = "done" => /\ ~FreshParse(buffer).threw
                      /\ activity = FreshParse(buffer).activity
    /\ pc = "threw" => FreshParse(buffer).threw

\* C3: for a well-formed stream the message loop ends with offset equal to
\* headerSize + payloadLength; it never passes it and never throws.
C3_WellFormedConsumedExactly ==
    WellFormed(input) =>
       /\ pc # "threw"
       /\ pc = "loop" => offset <= getUint8(buffer, 0) + Len(EncodeStream(input.stream))
       /\ pc = "done" => offset = getUint8(buffer, 0) + Len(EncodeStream(input.stream))

\* a well-formed file with a definition and a data message was decoded
C3_Witness ==
    /\ pc = "done"
    /\ WellFormed(input)
    /\ Len(input.stream) = 2
    /\ Len(activity.records) + Len(activity.sessions) + Len(activity.laps) = 1

\* C4: when bytes 8..11 differ from '.FIT', parse fails before any message
\* is decoded and returns no Activity.
C4_BadSignatureIsFatal ==
    (pc # "idle" /\ ~SignatureValid(buffer)) =>
       /\ pc = "threw"
       /\ error # "none"
       /\ msgCount = 0
       /\ activity = NewActivity

\* a file with a spoiled signature and messages behind it was rejected
C4_Witness ==
    /\ pc = "threw"
    /\ input.variant = "badsig"
    /\ Len(input.stream) > 0
    /\ Len(buffer) > 14

(***************************************************************************)
(* Properties of the stress-score calculator                               *)
(***************************************************************************)
\* the activity the last call worked on, in calculate's field names
CalcActivity ==
    IF tssPc = "recalculate"
    THEN [sport |-> tssStored.sport, totalTime |-> tssStored.duration,
          totalDistance |-> tssStored.distance,
          normalizedPower |-> tssStored.normalizedPower,
          avgPower |-> tssStored.avgPower, avgHeartRate |-> tssStored.avgHR]
    ELSE tssInput

Methods == {"power", "pace", "heart_rate", "duration_estimate"}

\* C5: calculate never fails: for every activity and thresholds it returns a
\* TSSResult whose tss is an integer and whose method is one of power, pace,
\* heart_rate, duration_estimate.
C5_ResultAlwaysInteger ==
    tssPc \in {"calculate", "recalculate"} =>
                      /\ IsNum(tssResult.tss)
                      /\ tssResult.method \in Methods

Usable(v) == Truthy(v)

PowerUsable(a) ==
    /\ a.sport = "cycling"
    /\ Usable(a.totalTime)
    /\ Usable(a.normalizedPower) \/ Usable(a.avgPower)

PaceUsable(a) ==
    /\ a.sport \in {"running", "swimming"}
    /\ Usable(a.totalTime)
    /\ Usable(a.totalDistance)
    /\ a.totalDistance.n >= (IF a.sport = "running" THEN 100 ELSE 25)

HeartRateUsable(a) == Usable(a.totalTime) /\ Usable(a.avgHeartRate)

\* C6: the method is picked by an in-order cascade: power iff cycling with
\* usable time and power; pace iff running (>= 100 m) or swimming (>= 25 m)
\* with usable time and distance; otherwise heart_rate iff time and average
\* heart rate are usable; otherwise duration_estimate with
\* tss = round(totalTime / 60) and IF = 0.7.
C6_MethodCascade ==
    tssPc \in {"calculate", "recalculate"} =>
       LET a == CalcActivity
           r == tssResult
       IN /\ r.method = "power" <=> PowerUsable(a)
          /\ r.method = "pace" <=> PaceUsable(a)
          /\ r.method = "heart_rate" <=>
                (~PowerUsable(a) /\ ~PaceUsable(a) /\ HeartRateUsable(a))
          /\ r.method = "duration_estimate" <=>
                (~PowerUsable(a) /\ ~PaceUsable(a) /\ ~HeartRateUsable(a))
          /\ r.method = "duration_estimate" =>
                /\ r.intensityFactor = Num(70)
                /\ IsNum(a.totalTime) =>
                      /\ IsNum(r.tss)
                      /\ 2 * 60 * r.tss.n - 60 <= 2 * a.totalTime.n
                      /\ 2 * a.totalTime.n < 2 * 60 * r.tss.n + 60

\* a swim of exactly 25 m was scored by pace, and a ride without power fell
\* back to heart rate
C6_Witness ==
    \/ /\ tssPc = "calculate"
       /\ tssInput.sport = "swimming"
       /\ tssInput.totalDistance = Num(25)
       /\ tssResult.method = "pace"
    \/ /\ tssPc = "calculate"
       /\ tssInput.sport = "cycling"
       /\ tssResult.method = "heart_rate"

\* the running example of the specification
RunningExample ==
    /\ tssPc = "calculate"
    /\ thresholds.runThreshold = 256
    /\ tssInput.sport = "running"
    /\ tssInput.totalDistance = Num(10000)
    /\ tssInput.totalTime = Num(2560)

\* x is n / d rounded to the nearest integer, ties upwards
IsRounded(x, r) ==
    /\ RLeq(Ratio(2 * x - 1, 2), r)
    /\ RLess(r, Ratio(2 * x + 1, 2))

\* the running intensity factor runThreshold / (duration / (distance / 1000))
RunIntensity(a, th) ==
    RMul(Ratio(th.runThreshold, 1),
         Ratio(a.totalDistance.n, 1000 * a.totalTime.n))

\* C7 as stated: runThreshold = 256 s/km, 10000 m in 2560 s gives IF = 1.00
\* and tss = 100.
C7_RunningExampleGives100 ==
    RunningExample => /\ tssResult.intensityFactor = Num(100)
                      /\ tssResult.tss = Num(100)

\* C7 amended: a running activity with usable inputs gets
\* IF = runThreshold / pace rounded to 2 decimals and
\* tss = round(duration_hours * IF^2 * 100); the example gives IF = 1.00 and
\* tss = 71.
C7_RunningTSS ==
    /\ (tssPc = "calculate" /\ tssResult.method = "pace"
        /\ tssInput.sport = "running") =>
           LET x == RunIntensity(tssInput, thresholds)
           IN /\ tssResult.type = "rTSS"
              /\ IsRounded(tssResult.intensityFactor.n, RMul(x, Ratio(100, 1)))
              /\ IsRounded(tssResult.tss.n,
                           RMul(Ratio(tssInput.totalTime.n, 36), RMul(x, x)))
    /\ RunningExample => /\ tssResult.intensityFactor = Num(100)
                         /\ tssResult.tss = Num(71)

C7_Witness == RunningExample /\ tssResult.method = "pace"

\* the cycling example of the specification
CyclingExample ==
    /\ tssPc = "calculate"
    /\ thresholds.ftp = 250
    /\ tssInput.sport = "cycling"
    /\ tssInput.normalizedPower = Num(200)
    /\ tssInput.totalTime = Num(3600)

\* C8: a cycling activity with usable power and duration gets
\* tss = round(duration * NP * (NP / FTP) / (FTP * 3600) * 100) and
\* IF = NP / FTP rounded to 2 decimals, method power, type TSS; FTP = 250,
\* NP = 200, 3600 s gives IF = 0.80 and tss = 64.
C8_CyclingTSS ==
    /\ (tssPc = "calculate" /\ PowerUsable(tssInput)) =>
           LET np == IF Usable(tssInput.normalizedPower)
                     THEN tssInput.normalizedPower.n ELSE tssInput.avgPower.n
               ftp == thresholds.ftp
           IN /\ tssResult.method = "power"
              /\ tssResult.type = "TSS"
              /\ IsRounded(tssResult.intensityFactor.n, Ratio(100 * np, ftp))
              /\ IsRounded(tssResult.tss.n,
                           RMul(Ratio(tssInput.totalTime.n, 36),
                                Ratio(np * np, ftp * ftp)))
    /\ CyclingExample => /\ tssResult.intensityFactor = Num(80)
                         /\ tssResult.tss = Num(64)

C8_Witness == CyclingExample /\ tssResult.method = "power"

(***************************************************************************)
(* PMCEngine claims                                                        *)
(***************************************************************************)
\* what getCurrentPMC reports on a new engine whose ledger is `ledger`
FreshCurrent(ledger) == getCurrentPMC(timeZone, ledger, EmptyMap)

\* C9: whatever setDailyTSS, addTSS, calculate, getHistory and
\* getWeeklySummaries calls came before, the ctl, atl and tsb that
\* getCurrentPMC reports are those of a fresh engine holding the same ledger.
C9_CurrentIsFunctionOfLedger ==
    pmcOp = "getCurrentPMC" =>
        /\ pmcResult.ctl = FreshCurrent(dailyTSS).ctl
        /\ pmcResult.atl = FreshCurrent(dailyTSS).atl
        /\ pmcResult.tsb = FreshCurrent(dailyTSS).tsb

\* the accumulators before day i of the last calculate loop was folded in
AccBefore(i) ==
    IF i = 1 THEN [ctl |-> 0, atl |-> 0]
    ELSE [ctl |-> pmcSteps[i - 1].ctl, atl |-> pmcSteps[i - 1].atl]

\* C10: for every day of the sequence calculate returns, tsb is
\* round(ctl_before - atl_before, 1) with the accumulators as they were
\* before that day's TSS was folded in; it equals the post-update difference
\* only where the two coincide, and the first day of the range has tsb = 0.
C10_TSBUsesPreUpdateAccumulators ==
    pmcOp = "calculate" =>
        /\ Len(pmcResult) = Len(pmcSteps)
        /\ \A i \in 1..Len(pmcResult) :
              /\ pmcResult[i].tsb
                   = RoundTenth(AccBefore(i).ctl - AccBefore(i).atl)
              /\ pmcResult[i].tsb
                   = RoundTenth(pmcSteps[i].ctl - pmcSteps[i].atl)
                 => RoundTenth(AccBefore(i).ctl - AccBefore(i).atl)
                    = RoundTenth(pmcSteps[i].ctl - pmcSteps[i].atl)
        /\ Len(pmcResult) > 0 => pmcResult[1].tsb = 0

\* a calculate over several days with stress on the first: the later days'
\* tsb is negative and differs from the post-update difference
C10_Witness ==
    /\ pmcOp = "calculate"
    /\ Len(pmcResult) >= 2
    /\ pmcResult[1].tss > 0
    /\ pmcResult[1].tsb = 0
    /\ \E i \in 2..Len(pmcResult) :
          /\ pmcResult[i].tss > 0
          /\ pmcResult[i].tsb < 0
          /\ pmcResult[i].tsb # RoundTenth(pmcSteps[i].ctl - pmcSteps[i].atl)

\* the days calculate was asked for: explicit arguments, or the defaults
RangeFirst ==
    IF pmcArgs[1].k # "null" THEN formatDate(pmcArgs[1])
    ELSE MinOf(DOMAIN dailyTSS)

RangeLast ==
    IF pmcArgs[2].k # "null" THEN formatDate(pmcArgs[2])
    ELSE formatDate(DateObj(Now))

\* C11: for explicit startDate <= endDate and any ledger, calculate returns
\* exactly one entry per calendar day of the inclusive range, in ascending
\* order without gap or duplicate, each with the ledger's tss of that day or
\* 0; without arguments the range runs from the earliest ledger date to today.
C11_OneEntryPerDay ==
    (/\ pmcOp = "calculate"
     /\ pmcArgs[1].k = "null" => DOMAIN dailyTSS # {}
     /\ RangeFirst <= RangeLast) =>
        /\ Len(pmcResult) = RangeLast - RangeFirst + 1
        /\ \A i \in 1..Len(pmcResult) :
              /\ pmcResult[i].date = RangeFirst + i - 1
              /\ pmcResult[i].tss = LedgerTSS(dailyTSS, pmcResult[i].date)

\* C12: the ledger value of a day is the value of the last setDailyTSS on it
\* (0 if none) plus the deltas of the addTSS calls made after it: setDailyTSS
\* replaces and addTSS accumulates, each call changes the entry of its own
\* day only and leaves the derived table untouched.
C12_LedgerUpdates ==
    [][pmcOp' \in {"setDailyTSS", "addTSS"} =>
         LET d == formatDate(pmcArgs'[1])
             v == pmcArgs'[2]
         IN /\ DOMAIN dailyTSS' = DOMAIN dailyTSS \cup {d}
            /\ \A x \in DOMAIN dailyTSS \ {d} : dailyTSS'[x] = dailyTSS[x]
            /\ pmcOp' = "setDailyTSS" => dailyTSS'[d] = v
            /\ pmcOp' = "addTSS" =>
                  dailyTSS'[d] = (IF d \in DOMAIN dailyTSS
                                  THEN dailyTSS[d] ELSE 0) + v
            /\ pmcData' = pmcData]_vars

\* an addTSS on a day that was set before, with other days in the ledger and
\* a derived table already computed
C12_Witness ==
    /\ pmcOp = "addTSS"
    /\ dailyTSS[formatDate(pmcArgs[1])] = 100
    /\ Cardinality(DOMAIN dailyTSS) > 1
    /\ DOMAIN pmcData # {}

MaxExtend == 2

\* the entries of a calculate result that lie on or before day T
EntriesUpTo(results, T) == SelectSeq(results, LAMBDA e : e.date <= T)

\* C13: for a fixed ledger with earliest date E and any T >= E, k >= 0,
\* calculate(E, T) and calculate(E, T + k) give identical entries for every
\* date <= T.
C13_RangeSuperset ==
    (/\ pmcOp = "calculate"
     /\ DOMAIN dailyTSS # {}
     /\ RangeFirst = MinOf(DOMAIN dailyTSS)) =>
        \A k \in 0..MaxExtend :
           EntriesUpTo(pmcResult, RangeLast)
             = EntriesUpTo(CalcResults(CalcSteps(timeZone, dailyTSS,
                               DateStr(RangeFirst), DateStr(RangeLast + k))),
                           RangeLast)

\* a calculate whose first day carries TSS = 100
LedgerExample ==
    /\ pmcOp = "calculate"
    /\ Len(pmcResult) > 0
    /\ pmcResult[1].tss = 100

\* an accumulator (thousandths) to two decimals
Hundredths(x) == RoundDiv(x, AccScale \div 100)

\* C14 as stated: from ctl = atl = 0 a first day with TSS = 100 gives tsb = 0,
\* ctl about 2.34 and atl about 13.08 before rounding to one decimal.
C14_LedgerExampleAsStated ==
    LedgerExample => /\ pmcResult[1].tsb = 0
                     /\ Hundredths(pmcSteps[1].ctl) = 234
                     /\ Hundredths(pmcSteps[1].atl) = 1308

\* C14 amended: such a first day gives tsb = 0, ctl about 2.35 and atl about
\* 13.31 before rounding (100 * (1 - e^(-1/42)) and 100 * (1 - e^(-1/7))),
\* 2.4 and 13.3 in the entry.
C14_LedgerExample ==
    LedgerExample => /\ pmcResult[1].tsb = 0
                     /\ Hundredths(pmcSteps[1].ctl) = 235
                     /\ Hundredths(pmcSteps[1].atl) = 1331
                     /\ pmcResult[1].ctl = 24
                     /\ pmcResult[1].atl = 133

C14_Witness == LedgerExample /\ pmcResult[1].date = 0 /\ Len(pmcResult) > 1

C16_CurrentSnapshot ==
    pmcOp = "getCurrentPMC" =>
        LET today == formatDate(DateObj(Now))
            weekAgo == today - 7
            entry == IF today \in DOMAIN pmcData THEN pmcData[today]
                     ELSE IF DOMAIN pmcData # {}
                          THEN pmcData[MaxOf(DOMAIN pmcData)]
                     ELSE [ctl |-> 0, atl |-> 0, tsb |-> 0]
        IN /\ pmcResult.ctl = entry.ctl
           /\ pmcResult.atl = entry.atl
           /\ pmcResult.tsb = entry.tsb
           /\ pmcResult.rampRate =
                 IF today \in DOMAIN pmcData /\ weekAgo \in DOMAIN pmcData
                 THEN pmcData[today].ctl - pmcData[weekAgo].ctl
                 ELSE 0

\* a snapshot whose ramp rate comes from two entries seven days apart
C16_Witness ==
    /\ pmcOp = "getCurrentPMC"
    /\ pmcResult.rampRate > 0
    /\ pmcResult.ctl > 0

(***************************************************************************)
(* TSSCalculator: settings and recalculation                               *)
(***************************************************************************)
ThresholdNames == {"ftp", "runThreshold", "swimThreshold", "lthr"}

\* a settings object specifies a threshold when it carries a usable value:
\* undefined, null and 0 do not count
Specifies(settings, name) == Truthy(settings[name])

\* C17: updateSettings(s) sets each of ftp, runThreshold, swimThreshold and
\* lthr that s specifies to the given value and leaves every threshold that
\* s does not specify unchanged; every calculate and recalculate made
\* afterwards uses the updated thresholds.
C17_UpdateSettingsFrame ==
    /\ [][tssPc' = "updateSettings" =>
            \A name \in ThresholdNames :
               thresholds'[name] = IF Specifies(tssSettings', name)
                                   THEN tssSettings'[name].n
                                   ELSE thresholds[name]]_vars
    /\ [][tssPc' \in {"calculate", "recalculate"} =>
            /\ thresholds' = thresholds
            /\ tssPc' = "calculate" =>
                  tssResult' = calculate(tssInput', thresholds)
            /\ tssPc' = "recalculate" =>
                  tssResult' = recalculate(tssStored', thresholds)]_vars

\* an update that names ftp and lthr but no run threshold, on a calculator
\* whose run threshold had been changed before
C17_Witness ==
    /\ tssPc = "updateSettings"
    /\ ~Specifies(tssSettings, "runThreshold")
    /\ thresholds.runThreshold = 300
    /\ tssSettings.ftp = Num(250)
    /\ thresholds.ftp = 250
    /\ thresholds.lthr = 160

\* the stored record after App wrote the result back into it
WriteBack(stored, r) ==
    [sport |-> stored.sport, duration |-> stored.duration,
     distance |-> stored.distance, normalizedPower |-> stored.normalizedPower,
     avgPower |-> stored.avgPower, avgHR |-> stored.avgHR,
     tss |-> r.tss, tssType |-> r.type, intensityFactor |-> r.intensityFactor]

RECURSIVE LocalDayTSS(_, _, _, _)
\* the tss of the stored activities whose local start date is `day`
LocalDayTSS(tz, acts, i, day) ==
    IF i > Len(acts) THEN 0
    ELSE (IF formatLocalDate(tz, acts[i].startTime) = day
          THEN Or(acts[i].tss, Num(0)).n ELSE 0)
         + LocalDayTSS(tz, acts, i + 1, day)

\* C19: when the ledger is rebuilt from the stored activities, each
\* activity's tss is added to exactly one ledger day, the activity's local
\* start date, under which the calendar view lists it.
C19_LedgerDayIsLocalStartDate ==
    pmcOp = "loadActivities" =>
        \A day \in -1..(Today + 1) :
           LedgerTSS(dailyTSS, day)
             = LocalDayTSS(timeZone, pmcArgs[1], 1, day)

(***************************************************************************)
(* FITParser: sessions                                                     *)
(***************************************************************************)
RECURSIVE SessionSum(_, _, _)
\* the sum of one total over the sessions i..Len(sessions)
SessionSum(sessions, name, i) ==
    IF i > Len(sessions) THEN Num(0)
    ELSE JSAdd(sessions[i][name], SessionSum(sessions, name, i + 1))

\* the value of the last session that supplied one, null if none did
LastSupplied(sessions, name) ==
    LET supplied == {i \in 1..Len(sessions) : Truthy(sessions[i][name])}
    IN IF supplied = {} THEN Null
       ELSE sessions[CHOOSE i \in supplied : \A j \in supplied : j <= i][name]

SessionTotals == {"totalTime", "totalDistance", "totalCalories"}

SessionScalars ==
    {"avgHeartRate", "maxHeartRate", "avgPower", "normalizedPower",
     "avgSpeed", "avgCadence"}

\* the message at the current offset is a data message of a slot whose
\* definition in the registry is a session (global message number 18)
AtSessionMessage ==
    /\ InRange(buffer, offset, 1)
    /\ (getUint8(buffer, offset) \div 64) % 2 = 0
    /\ (getUint8(buffer, offset) % 16) \in DOMAIN localMessageTypes
    /\ localMessageTypes[getUint8(buffer, offset) % 16].globalMsgNum = 18

\* C20: after any sequence of session messages in one decode the Activity's
\* totalTime, totalDistance and totalCalories are the sums of the session
\* values, each scalar average is the value of the last session that
\* supplied a non-null one (null if none did), and sessions holds every
\* session in stream order.  The derived-metrics pass that follows the loop
\* keeps the totals and every scalar a session supplied.
C20_SessionAggregation ==
    /\ [](pc \in {"loop", "threw", "done"} =>
            \A name \in SessionTotals :
               activity[name] = SessionSum(activity.sessions, name, 1))
    /\ [](pc \in {"loop", "threw"} =>
            \A name \in SessionScalars :
               activity[name] = LastSupplied(activity.sessions, name))
    /\ [](pc = "done" =>
            \A name \in SessionScalars :
               LastSupplied(activity.sessions, name) # Null =>
                  activity[name] = LastSupplied(activity.sessions, name))
    /\ [][(pc = "loop" /\ pc' = "loop" /\ msgCount' = msgCount + 1) =>
            LET n == Len(activity.sessions)
            IN /\ SubSeq(activity'.sessions, 1, n) = activity.sessions
               /\ Len(activity'.sessions) = IF AtSessionMessage THEN n + 1
                                            ELSE n]_vars

\* two sessions in one decode, the second without a heart rate
C20_Witness ==
    /\ pc = "loop"
    /\ Len(activity.sessions) = 2
    /\ activity.sessions[1].avgHeartRate = Num(140)
    /\ activity.sessions[2].avgHeartRate = Null
    /\ activity.avgHeartRate = Num(140)
    /\ activity.totalTime = Num(7000)

(***************************************************************************)
(* PMCEngine: history and weekly summaries                                 *)
(***************************************************************************)
\* the calendar days first..last in ascending order
DayRange(first, last) == [i \in 1..(last - first + 1) |-> first + i - 1]

\* C21: getHistory(days) recomputes with the accumulators zeroed at
\* today - days and returns the entries of the window [today - days, today]
\* in ascending date order, one per day of the window.
C21_HistoryWindow ==
    pmcOp = "getHistory" =>
        pmcResult = CalcResults(CalcLoop(dailyTSS,
                                         DayRange(Today - pmcArgs[1], Today),
                                         1, 0, 0))

\* the Monday of the week of a calendar day (day DSTDay is a Sunday)
MondayOf(day) == day - ((day - DSTDay - 1) % 7)

RECURSIVE LedgerSum(_, _, _)
\* the ledger TSS summed over the days first..last
LedgerSum(ledger, first, last) ==
    IF first > last THEN 0
    ELSE LedgerTSS(ledger, first) + LedgerSum(ledger, first + 1, last)

\* the last day of the week that starts on `monday` that is not in the future
LastDayOfWeek(monday) == IF monday + 6 > Today THEN Today ELSE monday + 6

\* C22: getWeeklySummaries(N) returns exactly N summaries in chronological
\* order, one for each of the last N Monday-start weeks; each summary's
\* totalTSS is the sum of the ledger TSS over the days of its week that are
\* not in the future, its activities count the number of those days with
\* TSS > 0, and its ctl/atl/tsb are the derived entry at the week's end
\* (today for the current week), or 0 when there is no such entry.
C22_WeeklySummaries ==
    pmcOp = "getWeeklySummaries" =>
        LET N == pmcArgs[1]
        IN /\ Len(pmcResult) = N
           /\ \A i \in 1..N :
                LET monday == MondayOf(Today) - 7 * (N - i)
                    last == LastDayOfWeek(monday)
                    has == last \in DOMAIN pmcData
                IN /\ pmcResult[i].weekStart = monday
                   /\ pmcResult[i].totalTSS = LedgerSum(dailyTSS, monday, last)
                   /\ pmcResult[i].activities =
                        Cardinality({d \in monday..last :
                                       LedgerTSS(dailyTSS, d) > 0})
                   /\ pmcResult[i].ctl = (IF has THEN pmcData[last].ctl ELSE 0)
                   /\ pmcResult[i].atl = (IF has THEN pmcData[last].atl ELSE 0)
                   /\ pmcResult[i].tsb = (IF has THEN pmcData[last].tsb ELSE 0)

(***************************************************************************)
(* TSSCalculator.parsePace                                                 *)
(***************************************************************************)
\* exactly one ':' with a string of digits, not empty, on each side
IsPace(str) ==
    /\ Cardinality({i \in 1..Len(str) : str[i] = ":"}) = 1
    /\ str[1] # ":"
    /\ str[Len(str)] # ":"
    /\ \A i \in 1..Len(str) : str[i] = ":" \/ IsDigit(str[i])

\* C23: parsePace maps 'M:SS' to M * 60 + SS ('4:16' to 256, '1:40' to 100)
\* and returns null for every string that does not consist of exactly one
\* ':' with an integer on each side, strings with two parts that are not
\* integers included.
C23_ParsePace ==
    tssPc = "parsePace" =>
        /\ paceString = <<"4", ":", "1", "6">> => paceResult = Num(256)
        /\ paceString = <<"1", ":", "4", "0">> => paceResult = Num(100)
        /\ IsPace(paceString) =>
              LET p == CHOOSE i \in 1..Len(paceString) : paceString[i] = ":"
                  M == DecimalValue(SubSeq(paceString, 1, p - 1), p - 1)
                  SS == DecimalValue(SubSeq(paceString, p + 1, Len(paceString)),
                                     Len(paceString) - p)
              IN paceResult = Num(M * 60 + SS)
        /\ ~IsPace(paceString) => paceResult = Null

(***************************************************************************)
(* PMCEngine: sign of the accumulators                                     *)
(***************************************************************************)
\* C24: if every ledger value is non-negative, then at every step of every
\* calculate run the ctl and atl accumulators are non-negative, and so are
\* the ctl and atl of every entry of the derived table.
C24_AccumulatorsNonNegative ==
    (\A d \in DOMAIN dailyTSS : dailyTSS[d] >= 0) =>
        /\ \A i \in 1..Len(pmcSteps) :
              pmcSteps[i].ctl >= 0 /\ pmcSteps[i].atl >= 0
        /\ \A d \in DOMAIN pmcData :
              pmcData[d].ctl >= 0 /\ pmcData[d].atl >= 0

\* a run over a training day followed by a rest day
C24_Witness ==
    /\ pmcOp = "calculate"
    /\ \E i \in 1..(Len(pmcSteps) - 1) :
          /\ pmcSteps[i].entry.tss > 0
          /\ pmcSteps[i + 1].entry.tss = 0
          /\ pmcSteps[i + 1].ctl > 0
          /\ pmcSteps[i + 1].atl > pmcSteps[i + 1].ctl
    /\ \E d \in DOMAIN pmcData : pmcData[d].ctl > 0

(***************************************************************************)
(* FITParser: the schema registry                                          *)
(***************************************************************************)
\* the msgDef a definition message of the stream registers
SchemaOf(m) ==
    [globalMsgNum |-> m.kind, fields |-> m.fields, isLittleEndian |-> m.arch = 0]

\* the index of the most recent definition for the slot of message k that
\* precedes it in the stream
LatestDefinition(stream, k) ==
    MaxOf({j \in 1..(k - 1) : /\ Menu[stream[j]].def
                              /\ Menu[stream[j]].slot = Menu[stream[k]].slot})

\* C25: a definition message for local slot s replaces the schema registered
\* for s and leaves the schemas of the other slots unchanged; every data
\* message for slot s is decoded with the field list and endianness of the
\* most recent definition for s that precedes it in the stream, never with
\* an older one.
C25_RegistryOverwrite ==
    [][(pc = "loop" /\ pc' = "loop" /\ msgCount' = msgCount + 1) =>
         /\ \A t \in DOMAIN localMessageTypes :
               t # getUint8(buffer, offset) % 16 =>
                  /\ t \in DOMAIN localMessageTypes'
                  /\ localMessageTypes'[t] = localMessageTypes[t]
         /\ DOMAIN localMessageTypes' \subseteq
               DOMAIN localMessageTypes \cup {getUint8(buffer, offset) % 16}
         /\ WellFormed(input) =>
              LET k == msgCount + 1
                  m == Menu[input.stream[k]]
              IN IF m.def
                 THEN /\ localMessageTypes'[m.slot] = SchemaOf(m)
                      /\ activity' = activity
                 ELSE LET d == SchemaOf(Menu[input.stream[
                                     LatestDefinition(input.stream, k)]])
                          r == ReadFields(buffer, offset + 1, d.fields, 1,
                                          d.isLittleEndian, EmptyValues)
                      IN /\ localMessageTypes' = localMessageTypes
                         /\ activity' = processMessage(d.globalMsgNum,
                                                       r.values, activity)]_vars

\* a second definition for slot 0 has replaced the first of the same stream
\* while the schema of slot 1, registered by an earlier file, is still there
C25_Witness ==
    /\ pc = "loop"
    /\ WellFormed(input)
    /\ input.stream = <<1, 3>>
    /\ msgCount = 2
    /\ localMessageTypes[0] = SchemaOf(Menu[3])
    /\ 1 \in DOMAIN localMessageTypes
    /\ localMessageTypes[1] = SchemaOf(Menu[2])

(***************************************************************************)
(* FITParser: how far a message advances the offset                        *)
(***************************************************************************)
\* the bytes of the message at the current offset, from its header byte, its
\* count bytes and the registry
MessageSize ==
    LET recordHeader == getUint8(buffer, offset)
        slot == recordHeader % 16
    IN IF (recordHeader \div 64) % 2 = 1
       THEN LET n == getUint8(buffer, offset + 5)
            IN IF (recordHeader \div 32) % 2 = 1
               THEN 6 + 3 * n + 1 + 3 * getUint8(buffer, offset + 6 + 3 * n)
               ELSE 6 + 3 * n
       ELSE IF slot \in DOMAIN localMessageTypes
       THEN 1 + BodySize(localMessageTypes[slot].fields, 1)
       ELSE 1

\* C26: each parseMessage call advances the offset by exactly the bytes of
\* its message: a definition message with n fields by 6 + 3n, plus 1 + 3m
\* when bit 0x20 is set and the length byte announces m developer fields; a
\* data message by 1 plus the sum of the declared byte widths of its slot's
\* schema, whether or not the individual field reads succeed.
C26_OffsetAdvance ==
    [][(pc = "loop" /\ pc' = "loop" /\ msgCount' = msgCount + 1) =>
         /\ offset' = offset + MessageSize
         /\ WellFormed(input) =>
               offset' = offset
                         + Len(EncodeMsg(Menu[input.stream[msgCount + 1]]))]_vars

\* a data message whose last byte is missing from the buffer: the field read
\* failed and the offset moved past the end of the buffer all the same
C26_Witness ==
    /\ pc = "loop"
    /\ input = [stream |-> <<4>>, variant |-> "truncated"]
    /\ msgCount = 1
    /\ Len(activity.records) = 1
    /\ activity.records[1].cadence = Null
    /\ offset = getUint8(buffer, 0) + 5
    /\ offset > Len(buffer)

(***************************************************************************)
(* FITParser: what a data message changes                                  *)
(***************************************************************************)
\* the message at the current offset is a data message
AtDataMessage ==
    /\ InRange(buffer, offset, 1)
    /\ (getUint8(buffer, offset) \div 64) % 2 = 0

\* the global kind of the schema of its slot, -1 without a schema
KindAtOffset ==
    LET slot == getUint8(buffer, offset) % 16
    IN IF slot \in DOMAIN localMessageTypes
       THEN localMessageTypes[slot].globalMsgNum ELSE -1

\* seq2 is seq1 with one element appended
OneAppended(seq1, seq2) ==
    /\ Len(seq2) = Len(seq1) + 1
    /\ SubSeq(seq2, 1, Len(seq1)) = seq1

\* the data messages among the first n of a well-formed stream whose most
\* recent definition is of kind 20
SampleMessages(stream, n) ==
    {k \in 1..n : /\ ~Menu[stream[k]].def
                  /\ Menu[stream[LatestDefinition(stream, k)]].kind = 20}

\* C27: a data message changes the Activity according to its schema's global
\* kind only: kind 18 appends one session and updates the summary fields,
\* kind 19 appends one lap, kind 20 appends one Sample to the end of the
\* sample sequence (so samples are in stream order and as many as the kind-20
\* data messages); a data message of any other kind leaves the Activity
\* unchanged while still advancing the offset.
C27_KindFrame ==
    /\ []((pc = "loop" /\ WellFormed(input)) =>
            Len(activity.records)
               = Cardinality(SampleMessages(input.stream, msgCount)))
    /\ [][(pc = "loop" /\ pc' = "loop" /\ msgCount' = msgCount + 1
           /\ AtDataMessage) =>
            CASE KindAtOffset = 18 ->
                    /\ OneAppended(activity.sessions, activity'.sessions)
                    /\ activity'.laps = activity.laps
                    /\ activity'.records = activity.records
              [] KindAtOffset = 19 ->
                    /\ OneAppended(activity.laps, activity'.laps)
                    /\ activity' = [activity EXCEPT !.laps = activity'.laps]
              [] KindAtOffset = 20 ->
                    /\ OneAppended(activity.records, activity'.records)
                    /\ activity' = [activity EXCEPT
                                      !.records = activity'.records]
              [] OTHER ->
                    /\ activity' = activity
                    /\ offset' > offset]_vars

\* a data message of kind 21 was decoded and discarded
C27_Witness ==
    /\ pc = "loop"
    /\ input.stream = <<7, 5>>
    /\ input.variant = "crc"
    /\ msgCount = 2
    /\ localMessageTypes[1].globalMsgNum = 21
    /\ activity = NewActivity
    /\ offset = endOffset

(***************************************************************************)
(* FITParser.calculateDerivedMetrics: what the pass may change             *)
(***************************************************************************)
DerivedScalars == {"normalizedPower", "avgPower", "avgHeartRate", "avgSpeed"}

\* some session of the decode supplied the scalar
SessionSupplied(a, f) == \E i \in 1..Len(a.sessions) : a.sessions[i][f] # Null

\* the number of samples that carry power
PowerSamples(a) == Cardinality({i \in 1..Len(a.records) : a.records[i].power # Null})

\* some sample has a present, positive value of the quantity
PositiveSample(a, q) ==
    \E i \in 1..Len(a.records) :
        a.records[i][q] # Null /\ JSPositive(a.records[i][q])

SampleQuantity(f) ==
    CASE f = "avgPower" -> "power"
      [] f = "avgHeartRate" -> "heartRate"
      [] f = "avgSpeed" -> "speed"

\* C28: the derived-metrics pass at the end of parse never overwrites a scalar
\* a session supplied; it sets normalizedPower only when that is absent and
\* more than 30 samples carry power (with 30 or fewer an absent value stays
\* absent), sets avgPower, avgHeartRate and avgSpeed only when absent and some
\* sample has a present, positive value of the quantity, and leaves the
\* totals, the sport, the laps, the sessions and the samples as they were.
C28_DerivedMetricsFrame ==
    [][(pc = "loop" /\ pc' = "done") =>
         /\ \A f \in DerivedScalars :
               SessionSupplied(activity, f) => activity'[f] = activity[f]
         /\ activity'.normalizedPower # activity.normalizedPower =>
               /\ activity.normalizedPower = Null
               /\ PowerSamples(activity) > windowSize
         /\ (activity.normalizedPower = Null
              /\ PowerSamples(activity) <= windowSize) =>
               activity'.normalizedPower = Null
         /\ \A f \in DerivedScalars \ {"normalizedPower"} :
               activity'[f] # activity[f] =>
                 /\ activity[f] = Null
                 /\ PositiveSample(activity, SampleQuantity(f))
         /\ \A f \in {"totalTime", "totalDistance", "totalCalories", "sport",
                       "subSport", "startTime", "laps", "sessions", "records"} :
               activity'[f] = activity[f]]_vars

\* 31 power samples after a session that gave a heart rate and no normalized
\* power: the pass computed normalizedPower and avgPower and kept the
\* session's heart rate, not the samples' 150
C28_Witness ==
    /\ pc = "done"
    /\ Len(activity.records) = windowSize + 1
    /\ Len(activity.sessions) = 1
    /\ activity.sessions[1].normalizedPower = Null
    /\ activity.sessions[1].avgHeartRate = Num(140)
    /\ activity.normalizedPower = Num(2)
    /\ activity.avgPower = Num(2)
    /\ activity.avgHeartRate = Num(140)

(***************************************************************************)
(* FITParser.parse: the message loop terminates                            *)
(***************************************************************************)
\* the payload length the header declares
PayloadLength == getUint32(buffer, 4, TRUE)

\* C29: every call of parseMessage throws or returns an offset strictly
\* greater than the one it was given, also for a data message whose slot has
\* no schema (one byte, no record); the loop therefore runs at most
\* payloadLength iterations, and a parse that entered the loop leaves it.
C29_LoopTerminates ==
    /\ [][msgCount' = msgCount + 1 =>
            /\ pc' = "threw" \/ offset' > offset
            /\ (AtDataMessage /\ KindAtOffset = -1) =>
                  /\ pc' = "loop"
                  /\ offset' = offset + 1
                  /\ activity' = activity]_vars
    /\ [](msgCount > 0 => msgCount <= PayloadLength)
    /\ (pc = "loop" ~> pc \in {"done", "threw"})

\* a session data message read with an empty registry: each of its nine bytes
\* was taken as a data message without a schema, nine iterations for a
\* payload of nine bytes
C29_Witness ==
    /\ pc = "done"
    /\ input = [stream |-> <<5>>, variant |-> "crc"]
    /\ PayloadLength = 9
    /\ msgCount = PayloadLength
    /\ offset = endOffset
    /\ activity = NewActivity

(***************************************************************************)
(* App.importFITFile and TSSCalculator.recalculate                         *)
(***************************************************************************)
\* C30: with the thresholds unchanged, recalculate on the record that
\* importFITFile built from a decoded Activity returns the tss, the type and
\* the IF that calculate returned for the Activity at import.
C30_RecalculateAgreesWithImport ==
    /\ [](tssPc = "importFITFile" =>
            /\ tssResult = calculate(tssInput, thresholds)
            /\ tssStored = importRecord(tssInput))
    /\ [][(tssPc = "importFITFile" /\ tssPc' = "recalculate") =>
            /\ tssResult'.tss = tssResult.tss
            /\ tssResult'.type = tssResult.type
            /\ tssResult'.intensityFactor = tssResult.intensityFactor]_vars

\* a ride without power: import scored it from the heart rate, and so did
\* the recalculation of its record
C30_Witness ==
    /\ tssPc = "recalculate"
    /\ tssInput.sport = "cycling"
    /\ tssInput.normalizedPower = Null
    /\ tssInput.avgPower = Null
    /\ tssInput.avgHeartRate = Num(140)
    /\ tssInput.totalTime = Num(3600)
    /\ tssStored = importRecord(tssInput)
    /\ tssResult.type = "hrTSS"
    /\ tssResult = calculate(tssInput, thresholds)

====
